---------------------------- MODULE Spec2Model ----------------------------
(***************************************************************************)
(* A model of openalex-types: pydantic classes that normalize one raw      *)
(* OpenAlex record (a JSON mapping) into a validated object, project it    *)
(* into SQL rows, and hydrate an object back from rows.                    *)
(*                                                                         *)
(* Python values are tagged records, so that values of different Python    *)
(* types are never equal and can be told apart by their tag:               *)
(*   None, S(str), I(int), Fl(float), B(bool), L(list), D(dict),           *)
(*   Dt(datetime), Obj(class, fields).                                     *)
(* A dict is a function from its keys; a list is a sequence.               *)
(***************************************************************************)
EXTENDS Integers, Sequences, FiniteSets, TLC

None == [t |-> "none"]
S(s) == [t |-> "str", s |-> s]
I(i) == [t |-> "int", i |-> i]
Fl(x) == [t |-> "float", x |-> x]
B(b) == [t |-> "bool", b |-> b]
L(l) == [t |-> "list", l |-> l]
D(d) == [t |-> "dict", d |-> d]
Dt(iso) == [t |-> "datetime", iso |-> iso]
Obj(cls, f) == [t |-> "obj", cls |-> cls, f |-> f]

EmptyDict == [k \in {} |-> None]

\* d[k] = v on a dict: the key is added or overwritten.
Put(d, k, v) == (k :> v) @@ d

\* utils.check: the key is present and its value is not None.
check(arg_name, obj) == arg_name \in DOMAIN obj /\ obj[arg_name].t # "none"

IsStr(v) == v.t = "str"
IsDict(v) == v.t = "dict"
IsList(v) == v.t = "list"

RECURSIVE SumSeq(_)
SumSeq(s) == IF s = <<>> THEN 0 ELSE Head(s) + SumSeq(Tail(s))

RECURSIVE Flat(_)
\* The concatenation of a sequence of sequences.
Flat(ss) == IF ss = <<>> THEN <<>> ELSE Head(ss) \o Flat(Tail(ss))

RECURSIVE JoinStr(_, _)
\* sep.join(parts) on strings.
JoinStr(parts, sep) ==
  IF parts = <<>> THEN ""
  ELSE IF Len(parts) = 1 THEN parts[1]
  ELSE parts[1] \o sep \o JoinStr(Tail(parts), sep)

(***************************************************************************)
(* Field declarations of a pydantic class.  ty is the declared type, sub   *)
(* the class of a nested model, req whether the field has no default,      *)
(* alias the keys looked up in the input (AliasChoices: the first key      *)
(* present wins), lit the values of a Literal.                             *)
(***************************************************************************)
Fld(name, ty, sub, req, alias, lit) ==
  [name |-> name, ty |-> ty, sub |-> sub, req |-> req, alias |-> alias, lit |-> lit]
O(name, ty) == Fld(name, ty, "", FALSE, <<name>>, {})
R(name, ty) == Fld(name, ty, "", TRUE, <<name>>, {})
M(name, cls) == Fld(name, "model", cls, FALSE, <<name>>, {})
ML(name, cls) == Fld(name, "listmodel", cls, FALSE, <<name>>, {})
A(name, ty, alias) == Fld(name, ty, "", FALSE, alias, {})
Lit(name, lit) == Fld(name, "literal", "", FALSE, <<name>>, lit)

Cls(fields, table, order) ==
  [fields |-> fields, sql_table_name |-> table, sql_order |-> order]

\* common.py
BaseCountByYear ==
  << R("year", "int"), O("works_count", "int"), O("cited_by_count", "int"),
     O("oa_works_count", "int") >>

SummaryStats ==
  Cls(<< A("twoyr_mean_citedness", "float", <<"2yr_mean_citedness">>),
         O("h_index", "int"), O("i10_index", "int") >>, "", <<>>)

Role ==
  Cls(<< Fld("role", "literal", "", TRUE, <<"role">>,
             {"institution", "funder", "publisher"}),
         R("id", "str"), R("works_count", "int") >>, "", <<>>)

\* sources.py
SourceCountByYear ==
  Cls(BaseCountByYear \o << R("source_id", "str") >>,
      "openalex.sources_counts_by_year",
      <<"source_id", "year", "works_count", "cited_by_count", "oa_works_count">>)

SourceIDs ==
  Cls(<< R("source_id", "str"), O("openalex", "str"), O("issn_l", "str"),
         O("issn", "liststr"), O("mag", "int"), O("wikidata", "str"),
         O("fatcat", "str") >>,
      "openalex.sources_ids",
      <<"source_id", "openalex", "issn_l", "issn", "mag", "wikidata", "fatcat">>)

SourceAPC == Cls(<< O("price", "int"), O("currency", "str") >>, "", <<>>)

DehydratedSource ==
  Cls(<< R("id", "str"), O("issn_l", "str"), O("display_name", "str"),
         O("is_oa", "bool"), O("is_in_doaj", "bool"), O("issn", "liststr"),
         O("host_organization", "str"), O("host_organization_lineage", "liststr"),
         O("host_organization_name", "str"), O("is_core", "bool"),
         O("type", "str") >>, "", <<>>)

Source ==
  Cls(<< R("id", "str"), O("issn_l", "str"), O("display_name", "str"),
         O("publisher", "str"), O("works_count", "int"),
         O("cited_by_count", "int"), O("is_oa", "bool"), O("is_in_doaj", "bool"),
         O("homepage_url", "str"), O("works_api_url", "str"),
         O("updated_date", "dtnotz"), O("issn", "liststr"),
         O("abbreviated_title", "str"), O("alternate_titles", "liststr"),
         ML("apc_prices", "SourceAPC"), O("apc_usd", "int"),
         O("country_code", "countrycode"),
         ML("counts_by_year", "SourceCountByYear"),
         O("host_organization", "str"), O("host_organization_lineage", "liststr"),
         O("host_organization_name", "str"), M("ids", "SourceIDs"),
         O("is_core", "bool"), M("summary_stats", "SummaryStats"),
         O("type", "str") >>,
      "openalex.sources",
      <<"id", "issn_l", "issn", "display_name", "publisher", "works_count",
        "cited_by_count", "is_oa", "is_in_doaj", "homepage_url",
        "works_api_url", "updated_date">>)

\* institutions.py
InstitutionAssociatedInstitution ==
  Cls(<< O("institution_id", "str"),
         A("associated_institution_id", "str",
           <<"id", "associated_institution_id">>),
         O("relationship", "str"), O("country_code", "countrycode"),
         O("display_name", "str"), O("ror", "str"), O("type", "str"),
         O("lineage", "liststr") >>,
      "openalex.institutions_associated_institutions",
      <<"institution_id", "associated_institution_id", "relationship">>)

InstitutionCountByYear ==
  Cls(BaseCountByYear \o << R("institution_id", "str") >>,
      "openalex.institutions_counts_by_year",
      <<"institution_id", "year", "works_count", "cited_by_count",
        "oa_works_count">>)

InstitutionGeo ==
  Cls(<< R("institution_id", "str"), O("city", "str"),
         O("geonames_city_id", "str"), O("region", "str"),
         O("country_code", "countrycode"), O("country", "str"),
         O("latitude", "float"), O("longitude", "float") >>,
      "openalex.institutions_geo",
      <<"institution_id", "city", "geonames_city_id", "region", "country_code",
        "country", "latitude", "longitude">>)

InstitutionIDs ==
  Cls(<< R("institution_id", "str"), O("openalex", "str"), O("ror", "str"),
         O("grid", "str"), O("wikidata", "str"), O("wikipedia", "str"),
         O("mag", "int") >>,
      "openalex.institutions_ids",
      <<"institution_id", "openalex", "ror", "grid", "wikipedia", "wikidata",
        "mag">>)

InstitutionInternationl ==
  Cls(<< R("display_name", "dictstrstr") >>, "", <<>>)

DehydratedInstitution ==
  Cls(<< R("id", "str"), O("country_code", "countrycode"),
         O("display_name", "str"), O("ror", "str"), O("type", "str"),
         O("lineage", "liststr") >>, "", <<>>)

Institution ==
  Cls(<< R("id", "str"), O("ror", "str"), O("lineage", "liststr"),
         O("display_name", "str"), O("country_code", "countrycode"),
         O("type", "str"), O("homepage_url", "str"), O("image_url", "str"),
         O("image_thumbnail_url", "str"), O("display_name_acronyms", "liststr"),
         O("display_name_alternatives", "liststr"), O("works_count", "int"),
         O("cited_by_count", "int"), O("works_api_url", "str"),
         O("updated_date", "dtnotz"), M("geo", "InstitutionGeo"),
         ML("counts_by_year", "InstitutionCountByYear"),
         M("ids", "InstitutionIDs"),
         ML("associated_institutions", "InstitutionAssociatedInstitution"),
         O("created_date", "date8601"), O("is_supersystem", "bool"),
         M("international", "InstitutionInternationl"),
         ML("repositories", "Source"),
         M("summary_stats", "SummaryStats"), ML("roles", "Role") >>,
      "openalex.institutions",
      <<"id", "ror", "display_name", "country_code", "type", "homepage_url",
        "image_url", "image_thumbnail_url", "display_name_acronyms",
        "display_name_alternatives", "works_count", "cited_by_count",
        "works_api_url", "updated_date">>)

\* authors.py
AuthorCountByYear ==
  Cls(BaseCountByYear \o << R("author_id", "str") >>,
      "openalex.authors_counts_by_year",
      <<"author_id", "year", "works_count", "cited_by_count", "oa_works_count">>)

AuthorIDs ==
  Cls(<< R("author_id", "str"), O("openalex", "str"), O("orcid", "str"),
         O("scopus", "str"), O("twitter", "str"), O("wikipedia", "str"),
         O("mag", "int") >>,
      "openalex.authors_ids",
      <<"author_id", "openalex", "orcid", "scopus", "twitter", "wikipedia",
        "mag">>)

AuthorAffiliation ==
  Cls(<< M("institution", "DehydratedInstitution"), O("years", "listint") >>,
      "", <<>>)

DehydratedAuthor ==
  Cls(<< R("id", "str"), O("display_name", "str"), O("orcid", "str") >>,
      "", <<>>)

Author ==
  Cls(<< R("id", "str"), O("orcid", "str"), O("display_name", "str"),
         O("display_name_alternatives", "liststr"), O("works_count", "int"),
         O("cited_by_count", "int"), O("last_known_institution", "str"),
         O("works_api_url", "str"), O("updated_date", "dtnotz"),
         M("ids", "AuthorIDs"), ML("counts_by_year", "AuthorCountByYear"),
         ML("affiliations", "AuthorAffiliation"), O("created_date", "date8601"),
         ML("last_known_institutions", "DehydratedInstitution"),
         M("summary_stats", "SummaryStats") >>,
      "openalex.authors",
      <<"id", "orcid", "display_name", "display_name_alternatives",
        "works_count", "cited_by_count", "last_known_institution",
        "works_api_url", "updated_date">>)

\* publishers.py
PublisherCountByYear ==
  Cls(BaseCountByYear \o << R("publisher_id", "str") >>,
      "openalex.publishers_counts_by_year",
      <<"publisher_id", "year", "works_count", "cited_by_count",
        "oa_works_count">>)

PublisherIDs ==
  Cls(<< O("publisher_id", "str"), O("openalex", "str"), O("ror", "str"),
         O("wikidata", "str") >>,
      "openalex.publishers_ids",
      <<"publisher_id", "openalex", "ror", "wikidata">>)

ParentPublisher ==
  Cls(<< O("id", "str"), O("display_name", "str") >>, "", <<>>)

Publisher ==
  Cls(<< R("id", "str"), O("display_name", "str"),
         O("alternate_titles", "liststr"), O("country_codes", "listcc"),
         O("hierarchy_level", "int"), M("parent_publisher", "ParentPublisher"),
         O("works_count", "int"), O("cited_by_count", "int"),
         O("sources_api_url", "str"), O("updated_date", "dtnotz"),
         ML("counts_by_year", "PublisherCountByYear"),
         O("created_date", "date8601"), M("ids", "PublisherIDs"),
         O("image_thumbnail_url", "str"), O("image_url", "str"),
         O("lineage", "liststr"), ML("roles", "Role"),
         M("summary_stats", "SummaryStats") >>,
      "openalex.publishers",
      <<"id", "display_name", "alternate_titles", "country_codes",
        "hierarchy_level", "parent_publisher", "works_count", "cited_by_count",
        "sources_api_url", "updated_date">>)

\* concepts.py
ConceptAncestor ==
  Cls(<< O("concept_id", "str"),
         A("ancestor_id", "str", <<"id", "ancestor_id">>) >>,
      "openalex.concepts_ancestors", <<"concept_id", "ancestor_id">>)

ConceptCountByYear ==
  Cls(BaseCountByYear \o << R("concept_id", "str") >>,
      "openalex.concepts_counts_by_year",
      <<"concept_id", "year", "works_count", "cited_by_count", "oa_works_count">>)

ConceptIDs ==
  Cls(<< R("concept_id", "str"), O("openalex", "str"), O("wikidata", "str"),
         O("wikipedia", "str"), O("umls_aui", "liststr"),
         O("umls_cui", "liststr"), O("mag", "int") >>,
      "openalex.concepts_ids",
      <<"concept_id", "openalex", "wikidata", "wikipedia", "umls_aui",
        "umls_cui", "mag">>)

ConceptRelatedConcept ==
  Cls(<< O("concept_id", "str"),
         A("related_concept_id", "str", <<"id", "related_concept_id">>),
         O("score", "float") >>,
      "openalex.concepts_related_concepts",
      <<"concept_id", "related_concept_id", "score">>)

Concept ==
  Cls(<< R("id", "str"), O("wikidata", "str"), O("display_name", "str"),
         O("level", "int"), O("description", "str"), O("works_count", "int"),
         O("cited_by_count", "int"), O("image_url", "str"),
         O("image_thumbnail_url", "str"), O("works_api_url", "str"),
         O("updated_date", "dtnotz"), ML("ancestors", "ConceptAncestor"),
         ML("related_concepts", "ConceptRelatedConcept"),
         ML("counts_by_year", "ConceptCountByYear"), M("ids", "ConceptIDs") >>,
      "openalex.concepts",
      <<"id", "wikidata", "display_name", "level", "description", "works_count",
        "cited_by_count", "image_url", "image_thumbnail_url", "works_api_url",
        "updated_date">>)

\* topics.py
TopicDomainOrField ==
  Cls(<< R("id", "str"), R("display_name", "str") >>, "", <<>>)

TopicIDs == Cls(<< O("openalex", "str"), O("wikipedia", "str") >>, "", <<>>)

Topic ==
  Cls(<< R("id", "str"), O("display_name", "str"), O("subfield_id", "str"),
         O("subfield_display_name", "str"), O("field_id", "str"),
         O("field_display_name", "str"), O("domain_id", "str"),
         O("domain_display_name", "str"), O("description", "str"),
         O("works_api_url", "anyurl"), O("wikipedia_id", "str"),
         O("works_count", "int"), O("cited_by_count", "int"),
         O("updated_date", "dtnotz"), M("domain", "TopicDomainOrField"),
         M("field", "TopicDomainOrField"), M("ids", "TopicIDs"),
         O("keywords", "liststr"), M("subfield", "TopicDomainOrField") >>,
      "openalex.topics",
      <<"id", "display_name", "subfield_id", "subfield_display_name",
        "field_id", "field_display_name", "domain_id", "domain_display_name",
        "description", "keywords", "works_api_url", "wikipedia_id",
        "works_count", "cited_by_count", "updated_date">>)

\* works.py
BaseWorkLocation ==
  << O("work_id", "str"), O("source_id", "str"), O("landing_page_url", "str"),
     O("pdf_url", "str"), O("is_oa", "bool"),
     Lit("version", {"publishedVersion", "acceptedVersion", "submittedVersion"}),
     O("license", "str"), M("source", "Source"), O("is_accepted", "bool"),
     O("is_published", "bool") >>

BaseWorkLocation_sql_order ==
  <<"work_id", "source_id", "landing_page_url", "pdf_url", "is_oa", "version",
    "license">>

WorkPrimaryLocation ==
  Cls(BaseWorkLocation, "openalex.works_primary_locations",
      BaseWorkLocation_sql_order)

WorkLocation ==
  Cls(BaseWorkLocation, "openalex.works_locations", BaseWorkLocation_sql_order)

WorkBestOALocation ==
  Cls(BaseWorkLocation, "openalex.works_best_oa_locations",
      BaseWorkLocation_sql_order)

WorkAuthorship ==
  Cls(<< O("work_id", "str"),
         Lit("author_position", {"first", "last", "middle"}),
         O("author_id", "str"), O("institution_id", "str"),
         O("raw_affiliation_string", "str"), M("author", "DehydratedAuthor"),
         O("countries", "liststr"), ML("institutions", "DehydratedInstitution"),
         O("is_corresponding", "bool"), O("raw_author_name", "str") >>,
      "openalex.works_authorships",
      <<"work_id", "author_position", "author_id", "institution_id",
        "raw_affiliation_string">>)

WorkBiblio ==
  Cls(<< O("work_id", "str"), O("volume", "str"), O("issue", "str"),
         O("first_page", "str"), O("last_page", "str") >>,
      "openalex.works_biblio",
      <<"work_id", "volume", "issue", "first_page", "last_page">>)

WorkTopic ==
  Cls(<< A("work_id", "str", <<"id", "work_id">>), O("topic_id", "str"),
         O("score", "float"), O("subfield", "dict") >>,
      "openalex.works_topics", <<"work_id", "topic_id", "score">>)

WorkConcept ==
  Cls(<< O("work_id", "str"), O("concept_id", "str"), O("score", "float") >>,
      "openalex.works_concepts", <<"work_id", "concept_id", "score">>)

WorkIDs ==
  Cls(<< R("work_id", "str"), O("openalex", "str"), O("doi", "str"),
         O("mag", "int"), O("pmid", "str"), O("pmcid", "str") >>,
      "openalex.works_ids",
      <<"work_id", "openalex", "doi", "mag", "pmid", "pmcid">>)

WorkMesh ==
  Cls(<< O("work_id", "str"), O("descriptor_ui", "str"),
         O("descriptor_name", "str"), O("qualifier_ui", "str"),
         O("qualifier_name", "str"), O("is_major_topic", "bool") >>,
      "openalex.works_mesh",
      <<"work_id", "descriptor_ui", "descriptor_name", "qualifier_ui",
        "qualifier_name", "is_major_topic">>)

NomicEmbedText768 ==
  Cls(<< O("work_id", "str"), O("embedding", "listfloat") >>,
      "openalex.nomic_embed_text_768", <<"work_id", "embedding">>)

WorkOpenAccess ==
  Cls(<< O("work_id", "str"), O("is_oa", "bool"), O("oa_status", "str"),
         O("oa_url", "str"), O("any_repository_has_fulltext", "bool") >>,
      "openalex.works_open_access",
      <<"work_id", "is_oa", "oa_status", "oa_url",
        "any_repository_has_fulltext">>)

WorkReferencedWork ==
  Cls(<< O("work_id", "str"),
         A("referenced_work_id", "str", <<"id", "referenced_work_id">>) >>,
      "openalex.works_referenced_works", <<"work_id", "referenced_work_id">>)

WorkRelatedWork ==
  Cls(<< O("work_id", "str"),
         A("related_work_id", "str", <<"id", "related_work_id">>) >>,
      "openalex.works_related_works", <<"work_id", "related_work_id">>)

WorkAPC ==
  Cls(<< O("value", "int"), O("currency", "str"), O("provenance", "str"),
         O("value_usd", "int") >>, "", <<>>)

WorkCountByYear ==
  Cls(<< R("year", "int"), R("cited_by_count", "int") >>, "", <<>>)

WorkGrant ==
  Cls(<< O("funder", "str"), O("funder_display_name", "str"),
         O("award_id", "str") >>, "", <<>>)

WorkKeyword ==
  Cls(<< O("id", "str"), O("display_name", "str"), O("score", "float") >>,
      "", <<>>)

WorkSDG ==
  Cls(<< O("id", "str"), O("display_name", "str"), O("score", "float") >>,
      "", <<>>)

Work ==
  Cls(<< R("id", "str"), O("doi", "str"), O("title", "str"),
         O("display_name", "str"), O("publication_year", "int"),
         O("publication_date", "date8601"), O("type", "str"),
         O("cited_by_count", "int"), O("is_retracted", "bool"),
         O("is_paratext", "bool"), O("cited_by_api_url", "str"),
         O("abstract_inverted_index", "dict"), O("language", "str"),
         M("ids", "WorkIDs"), ML("locations", "WorkLocation"),
         ML("authorships", "WorkAuthorship"), M("biblio", "WorkBiblio"),
         ML("topics", "WorkTopic"), ML("concepts", "WorkConcept"),
         ML("mesh", "WorkMesh"), M("open_access", "WorkOpenAccess"),
         ML("referenced_works", "WorkReferencedWork"),
         ML("related_works", "WorkRelatedWork"), M("apc_list", "WorkAPC"),
         M("apc_paid", "WorkAPC"), M("best_oa_location", "WorkBestOALocation"),
         O("corresponding_author_ids", "liststr"),
         O("corresponding_institution_ids", "liststr"),
         O("countries_distinct_count", "int"), O("created_date", "date8601"),
         ML("counts_by_year", "WorkCountByYear"),
         Lit("fulltext_origin", {"pdf", "ngrams"}), O("fwci", "float"),
         ML("grants", "WorkGrant"), O("has_fulltext", "bool"),
         O("indexed_in", "liststr"), O("institutions_distinct_count", "int"),
         ML("keywords", "WorkKeyword"), O("license", "str"),
         O("locations_count", "int"),
         M("primary_location", "WorkPrimaryLocation"),
         M("primary_topic", "WorkTopic"),
         ML("sustainable_development_goals", "WorkSDG"),
         O("type_crossref", "str"), O("updated_date", "date8601"),
         M("abstract_embedding_nomic_embed_text", "NomicEmbedText768") >>,
      "openalex.works",
      <<"id", "doi", "title", "display_name", "publication_year",
        "publication_date", "type", "cited_by_count", "is_retracted",
        "is_paratext", "cited_by_api_url", "abstract_inverted_index",
        "language">>)

\* The pydantic class of a name.
ClassOf(cls) ==
  CASE cls = "Work" -> Work
    [] cls = "WorkPrimaryLocation" -> WorkPrimaryLocation
    [] cls = "WorkLocation" -> WorkLocation
    [] cls = "WorkBestOALocation" -> WorkBestOALocation
    [] cls = "WorkAuthorship" -> WorkAuthorship
    [] cls = "WorkBiblio" -> WorkBiblio
    [] cls = "WorkTopic" -> WorkTopic
    [] cls = "WorkConcept" -> WorkConcept
    [] cls = "WorkIDs" -> WorkIDs
    [] cls = "WorkMesh" -> WorkMesh
    [] cls = "NomicEmbedText768" -> NomicEmbedText768
    [] cls = "WorkOpenAccess" -> WorkOpenAccess
    [] cls = "WorkReferencedWork" -> WorkReferencedWork
    [] cls = "WorkRelatedWork" -> WorkRelatedWork
    [] cls = "WorkAPC" -> WorkAPC
    [] cls = "WorkCountByYear" -> WorkCountByYear
    [] cls = "WorkGrant" -> WorkGrant
    [] cls = "WorkKeyword" -> WorkKeyword
    [] cls = "WorkSDG" -> WorkSDG
    [] cls = "SummaryStats" -> SummaryStats
    [] cls = "Role" -> Role
    [] cls = "Source" -> Source
    [] cls = "SourceCountByYear" -> SourceCountByYear
    [] cls = "SourceIDs" -> SourceIDs
    [] cls = "SourceAPC" -> SourceAPC
    [] cls = "DehydratedSource" -> DehydratedSource
    [] cls = "Institution" -> Institution
    [] cls = "InstitutionAssociatedInstitution" -> InstitutionAssociatedInstitution
    [] cls = "InstitutionCountByYear" -> InstitutionCountByYear
    [] cls = "InstitutionGeo" -> InstitutionGeo
    [] cls = "InstitutionIDs" -> InstitutionIDs
    [] cls = "InstitutionInternationl" -> InstitutionInternationl
    [] cls = "DehydratedInstitution" -> DehydratedInstitution
    [] cls = "Author" -> Author
    [] cls = "AuthorCountByYear" -> AuthorCountByYear
    [] cls = "AuthorIDs" -> AuthorIDs
    [] cls = "AuthorAffiliation" -> AuthorAffiliation
    [] cls = "DehydratedAuthor" -> DehydratedAuthor
    [] cls = "Publisher" -> Publisher
    [] cls = "PublisherCountByYear" -> PublisherCountByYear
    [] cls = "PublisherIDs" -> PublisherIDs
    [] cls = "ParentPublisher" -> ParentPublisher
    [] cls = "Concept" -> Concept
    [] cls = "ConceptAncestor" -> ConceptAncestor
    [] cls = "ConceptCountByYear" -> ConceptCountByYear
    [] cls = "ConceptIDs" -> ConceptIDs
    [] cls = "ConceptRelatedConcept" -> ConceptRelatedConcept
    [] cls = "Topic" -> Topic
    [] cls = "TopicDomainOrField" -> TopicDomainOrField
    [] cls = "TopicIDs" -> TopicIDs

\* data.py: the class of each kind tag.
PYDANTIC_MODELS ==
  [works |-> "Work", authors |-> "Author", topics |-> "Topic",
   concepts |-> "Concept", institutions |-> "Institution",
   publishers |-> "Publisher", sources |-> "Source"]

\* The _sql_subtables of a root class and its MULTIVALUE list.
SqlSubtables(cls) ==
  CASE cls = "Work" ->
         <<"primary_location", "locations", "best_oa_location", "authorships",
           "biblio", "topics", "concepts", "ids", "mesh", "open_access",
           "referenced_works", "related_works">>
    [] cls = "Author" -> <<"counts_by_year", "ids">>
    [] cls = "Institution" ->
         <<"associated_institutions", "counts_by_year", "geo", "ids">>
    [] cls = "Source" -> <<"counts_by_year", "ids">>
    [] cls = "Publisher" -> <<"counts_by_year", "ids">>
    [] cls = "Concept" ->
         <<"ancestors", "related_concepts", "counts_by_year", "ids">>
    [] OTHER -> <<>>

MULTIVALUE(cls) ==
  CASE cls = "Work" ->
         {"locations", "authorships", "topics", "concepts", "mesh",
          "referenced_works", "related_works"}
    [] cls = "Author" -> {"counts_by_year"}
    [] cls = "Institution" -> {"associated_institutions", "counts_by_year"}
    [] cls = "Source" -> {"counts_by_year"}
    [] cls = "Publisher" -> {"counts_by_year"}
    [] cls = "Concept" -> {"ancestors", "related_concepts", "counts_by_year"}
    [] OTHER -> {}

(***************************************************************************)
(* Strings.  A string with no special character is one chunk; a string     *)
(* with quote characters is listed here cut into chunks, each special      *)
(* character a chunk of its own, so that str.replace acts on it.           *)
(***************************************************************************)
Chars(s) ==
  CASE s = "it's" -> <<"it", "'", "s">>
    [] s = "Al \"Bo\"" -> <<"Al ", "\"", "Bo", "\"">>
    [] s = "\"" -> <<"\"">>
    [] s = "a, b" -> <<"a", ",", " b">>
    [] OTHER -> <<s>>

\* s.replace(old, new) for a one-character old.
Replace(s, old, new) ==
  LET cs == Chars(s)
  IN  JoinStr([i \in 1..Len(cs) |-> IF cs[i] = old THEN new ELSE cs[i]], "")

Min(set) == CHOOSE x \in set : \A y \in set : x <= y
Max(set) == CHOOSE x \in set : \A y \in set : x >= y

(***************************************************************************)
(* Timestamps.  A datetime is [base, frac, tz]: the whole-second ISO text, *)
(* the fraction of a second and the UTC offset (both "" when absent).      *)
(* ParseIso is datetime parsing on the timestamps the inputs use.          *)
(***************************************************************************)
\* The outcome of a validator: the value, or a ValueError.
Good(v) == [ok |-> TRUE, v |-> v]
Bad == [ok |-> FALSE, v |-> None]

IsoStrings ==
  {"2020-01-02", "2020-01-02T00:00:00", "2020-01-02T03:04:05",
   "2020-01-02T03:04:05.123456", "2020-01-02T03:04:05Z",
   "2020-01-02T03:04:05+00:00", "2020-01-02T03:04:05.123456+05:00",
   "0999-01-02T03:04:05"}

ParseIso(s) ==
  CASE s = "2020-01-02" ->
         [base |-> "2020-01-02T00:00:00", frac |-> "", tz |-> "", year |-> 2020]
    [] s = "2020-01-02T00:00:00" ->
         [base |-> "2020-01-02T00:00:00", frac |-> "", tz |-> "", year |-> 2020]
    [] s = "2020-01-02T03:04:05" ->
         [base |-> "2020-01-02T03:04:05", frac |-> "", tz |-> "", year |-> 2020]
    [] s = "2020-01-02T03:04:05.123456" ->
         [base |-> "2020-01-02T03:04:05", frac |-> ".123456", tz |-> "",
          year |-> 2020]
    [] s = "2020-01-02T03:04:05Z" ->
         [base |-> "2020-01-02T03:04:05", frac |-> "", tz |-> "+00:00",
          year |-> 2020]
    [] s = "2020-01-02T03:04:05+00:00" ->
         [base |-> "2020-01-02T03:04:05", frac |-> "", tz |-> "+00:00",
          year |-> 2020]
    [] s = "2020-01-02T03:04:05.123456+05:00" ->
         [base |-> "2020-01-02T03:04:05", frac |-> ".123456", tz |-> "+05:00",
          year |-> 2020]
    [] s = "0999-01-02T03:04:05" ->
         [base |-> "0999-01-02T03:04:05", frac |-> "", tz |-> "", year |-> 999]

\* Whether the C library's strftime writes %Y of a year before 1000 with
\* leading zeros (four digits).  It depends on the platform the program
\* runs on: glibc does not, other libraries do.
VARIABLE pad_year

\* common.no_tz: dt.strftime("%Y-%m-%d %H:%M:%S") is the timestamp at whole
\* seconds without offset; datetime.fromisoformat reads it back only when
\* its year has four digits (a ValueError otherwise); isoformat(sep="T")
\* of the naive result is the text at whole seconds.
no_tz(dt) ==
  LET digits == IF pad_year THEN 4 ELSE Len(ToString(dt.year))
  IN  IF digits = 4 THEN Good(dt.base) ELSE Bad

\* common.check_8601: dt.isoformat().
check_8601(dt) == dt.base \o dt.frac \o dt.tz

(***************************************************************************)
(* pydantic validation of one value against a declared scalar type, on     *)
(* the values the inputs use.  The result is [ok, v].                      *)
(***************************************************************************)

AllOf(v, tag) == IsList(v) /\ \A i \in 1..Len(v.l) : v.l[i].t = tag

AsDatetime(v) ==
  IF v.t = "datetime" THEN Good(v.iso)
  ELSE IF IsStr(v) /\ v.s \in IsoStrings THEN Good(ParseIso(v.s))
  ELSE Bad

CoerceScalar(f, v) ==
  CASE f.ty = "str" -> IF IsStr(v) THEN Good(v) ELSE Bad
    [] f.ty = "anyurl" -> IF IsStr(v) THEN Good(v) ELSE Bad
    [] f.ty = "int" -> IF v.t = "int" THEN Good(v) ELSE Bad
    [] f.ty = "float" ->
         IF v.t = "float" THEN Good(v)
         ELSE IF v.t = "int" THEN Good(Fl(ToString(v.i) \o ".0"))
         ELSE Bad
    [] f.ty = "bool" -> IF v.t = "bool" THEN Good(v) ELSE Bad
    [] f.ty = "dict" -> IF IsDict(v) THEN Good(v) ELSE Bad
    [] f.ty = "dictstrstr" ->
         IF IsDict(v) /\ \A k \in DOMAIN v.d : IsStr(v.d[k]) THEN Good(v) ELSE Bad
    [] f.ty = "liststr" -> IF AllOf(v, "str") THEN Good(v) ELSE Bad
    [] f.ty = "listint" -> IF AllOf(v, "int") THEN Good(v) ELSE Bad
    [] f.ty = "listfloat" -> IF AllOf(v, "float") THEN Good(v) ELSE Bad
    [] f.ty = "countrycode" ->
         IF IsStr(v) /\ Len(v.s) = 2 THEN Good(v) ELSE Bad
    [] f.ty = "listcc" ->
         IF AllOf(v, "str") /\ \A i \in 1..Len(v.l) : Len(v.l[i].s) = 2
         THEN Good(v) ELSE Bad
    [] f.ty = "literal" -> IF IsStr(v) /\ v.s \in f.lit THEN Good(v) ELSE Bad
    [] f.ty = "date8601" ->
         LET dt == AsDatetime(v)
         IN  IF dt.ok THEN Good(S(check_8601(dt.v))) ELSE Bad
    [] f.ty = "dtnotz" ->
         LET dt == AsDatetime(v)
             r == IF dt.ok THEN no_tz(dt.v) ELSE Bad
         IN  IF r.ok THEN Good(S(r.v)) ELSE Bad

(***************************************************************************)
(* The mode="before" model validators.  Each takes the input mapping       *)
(* `self` and gives [st, data]: the mapping as it leaves it, and "error"   *)
(* when it raises (a KeyError or TypeError, which pydantic lets through).  *)
(* and "invalid" when it raises a ValueError.                              *)
(***************************************************************************)
Ok(d) == [st |-> "ok", data |-> d]
Err(d) == [st |-> "error", data |-> d]
Inv(d) == [st |-> "invalid", data |-> d]
Then(r, Op(_)) == IF r.st = "ok" THEN Op(r.data) ELSE r

\* if check(key, self): self[key][fk] = self["id"]
ReplicateOne(self, key, fk) ==
  IF ~check(key, self) THEN Ok(self)
  ELSE IF "id" \notin DOMAIN self \/ ~IsDict(self[key]) THEN Err(self)
  ELSE Ok(Put(self, key, D(Put(self[key].d, fk, self["id"]))))

\* if check(key, self): for x in self[key]: x[fk] = self["id"]
ReplicateMany(self, key, fk) ==
  IF ~check(key, self) THEN Ok(self)
  ELSE IF ~IsList(self[key]) THEN Err(self)
  ELSE
    LET xs == self[key].l
        bad == {i \in 1..Len(xs) : ~IsDict(xs[i])}
        stop == IF "id" \notin DOMAIN self THEN 1
                ELSE IF bad = {} THEN Len(xs) + 1 ELSE Min(bad)
        ys == [i \in 1..Len(xs) |->
                 IF i < stop THEN D(Put(xs[i].d, fk, self["id"])) ELSE xs[i]]
    IN  IF stop <= Len(xs) THEN Err(Put(self, key, L(ys)))
        ELSE Ok(Put(self, key, L(ys)))

\* A variant of _construct_dict_from_id with the two ids exchanged.
construct_dict_from_id_swapped(work_id, other_id) ==
  D([id |-> work_id, work_id |-> other_id])

\* works._construct_dict_from_id
construct_dict_from_id(work_id, other_id) ==
  D([id |-> other_id, work_id |-> work_id])

\* The block of Work._work_id_ref_related for one of the two lists: each
\* element of the list is replaced in place.
WrapRelated(self, key) ==
  IF ~check(key, self) THEN Ok(self)
  ELSE IF ~IsList(self[key]) THEN Err(self)
  ELSE IF self[key].l = <<>> THEN Ok(self)
  ELSE IF "id" \notin DOMAIN self THEN Err(self)
  ELSE Ok(Put(self, key,
              L([n \in 1..Len(self[key].l) |->
                   construct_dict_from_id(self["id"], self[key].l[n])])))

Work_work_id_ref_related(self) ==
  LET Referenced(d) == WrapRelated(d, "referenced_works")
  IN  Then(WrapRelated(self, "related_works"), Referenced)

\* A variant of the flattening that keeps the first institution only.
FlattenOne_first(authorship) ==
  IF ~IsDict(authorship) THEN <<authorship>>
  ELSE IF ~check("institutions", authorship.d) THEN <<authorship>>
  ELSE IF Len(authorship.d["institutions"].l) = 0 THEN <<authorship>>
  ELSE <<D(Put(Put(authorship.d, "institution_id",
                   authorship.d["institutions"].l[1].d["id"]),
               "institutions", L(<<authorship.d["institutions"].l[1]>>)))>>

\* What Work._flatten_authorships appends for one authorship: the
\* authorship itself, or one copy per institution.
FlattenOne(authorship) ==
  IF ~IsDict(authorship) THEN <<authorship>>
  ELSE IF ~check("institutions", authorship.d) THEN <<authorship>>
  ELSE IF Len(authorship.d["institutions"].l) = 0 THEN <<authorship>>
  ELSE [k \in 1..Len(authorship.d["institutions"].l) |->
          LET institution == authorship.d["institutions"].l[k]
          IN  D(Put(Put(authorship.d, "institution_id", institution.d["id"]),
                    "institutions", L(<<institution>>)))]

\* Whether the loop of Work._flatten_authorships raises on this authorship.
FlattenRaises(authorship) ==
  /\ IsDict(authorship)
  /\ check("institutions", authorship.d)
  /\ \/ ~IsList(authorship.d["institutions"])
     \/ \E k \in 1..Len(authorship.d["institutions"].l) :
          LET institution == authorship.d["institutions"].l[k]
          IN  ~IsDict(institution) \/ "id" \notin DOMAIN institution.d

Work_flatten_authorships(self) ==
  IF ~check("authorships", self) THEN Ok(self)
  ELSE IF ~IsList(self["authorships"]) THEN Err(self)
  ELSE
    LET as == self["authorships"].l
    IN  IF \E i \in 1..Len(as) : FlattenRaises(as[i]) THEN Err(self)
        ELSE Ok(Put(self, "authorships",
                    L(Flat([i \in 1..Len(as) |-> FlattenOne(as[i])]))))

Work_replicate_id_1(self) ==
  LET s2(d) == ReplicateOne(d, "ids", "work_id")
      s3(d) == ReplicateMany(d, "locations", "work_id")
      s4(d) == ReplicateMany(d, "authorships", "work_id")
      s5(d) == ReplicateOne(d, "biblio", "work_id")
  IN  Then(Then(Then(Then(
        ReplicateMany(self, "counts_by_year", "author_id"), s2), s3), s4), s5)

Work_replicate_id_2(self) ==
  LET s2(d) == ReplicateMany(d, "concepts", "work_id")
      s3(d) == ReplicateMany(d, "mesh", "work_id")
      s4(d) == ReplicateOne(d, "open_access", "work_id")
  IN  Then(Then(Then(ReplicateMany(self, "topics", "work_id"), s2), s3), s4)

Work_replicate_id_3(self) ==
  LET s2(d) == ReplicateOne(d, "primary_location", "work_id")
      s3(d) == ReplicateMany(d, "locations", "work_id")
  IN  Then(Then(ReplicateOne(self, "best_oa_location", "work_id"), s2), s3)

WorkAuthorship_replicate_id(self) ==
  IF ~check("author", self) THEN Ok(self)
  ELSE IF ~IsDict(self["author"]) \/ "id" \notin DOMAIN self["author"].d
       THEN Err(self)
  ELSE Ok(Put(self, "author_id", self["author"].d["id"]))

Author_replicate_id(self) ==
  LET s2(d) == ReplicateOne(d, "ids", "author_id")
  IN  Then(ReplicateMany(self, "counts_by_year", "author_id"), s2)

Institution_replicate_id(self) ==
  LET s2(d) == ReplicateMany(d, "counts_by_year", "institution_id")
      s3(d) == ReplicateOne(d, "ids", "institution_id")
      s4(d) == ReplicateMany(d, "associated_institutions", "institution_id")
  IN  Then(Then(Then(ReplicateOne(self, "geo", "institution_id"), s2), s3), s4)

Source_replicate_id(self) ==
  LET s2(d) == ReplicateOne(d, "ids", "source_id")
  IN  Then(ReplicateMany(self, "counts_by_year", "source_id"), s2)

Publisher_replicate_id(self) ==
  LET s2(d) == ReplicateOne(d, "ids", "publisher_id")
  IN  Then(ReplicateMany(self, "counts_by_year", "publisher_id"), s2)

Concept_replicate_id(self) ==
  LET s2(d) == ReplicateMany(d, "counts_by_year", "concept_id")
      s3(d) == ReplicateMany(d, "ancestors", "concept_id")
      s4(d) == ReplicateMany(d, "related_concepts", "concept_id")
  IN  Then(Then(Then(ReplicateOne(self, "ids", "concept_id"), s2), s3), s4)

Topic_replicate_id(self) == ReplicateOne(self, "ids", "openalex")

\* The literal _get_arg builds for a list of strings, cut into chunks with
\* each quote, comma and bracket a chunk of its own: every element between
\* double quotes with its single quotes doubled, joined by commas, inside
\* '[ and ]'.
ArrayChunks(l) ==
  LET Doubled(cs) == Flat([j \in 1..Len(cs) |->
                             IF cs[j] = "'" THEN <<"'", "'">> ELSE <<cs[j]>>])
      Elem(x) == <<"\"">> \o Doubled(Chars(x.s)) \o <<"\"">>
  IN  <<"'", "[">>
        \o Flat([i \in 1..Len(l) |->
                   IF i = 1 THEN Elem(l[i]) ELSE <<",">> \o Elem(l[i])])
        \o <<"]", "'">>

\* The members of a set of numbers in ascending order.
Ascending(set) ==
  [k \in 1..Cardinality(set) |->
     CHOOSE p \in set : Cardinality({q \in set : q < p}) = k - 1]

\* The text a quoted SQL literal stands for, in chunks: the outer quotes
\* removed and, left to right, every pair of single quotes read as one.
SqlText(cs) ==
  LET inner == SubSeq(cs, 2, Len(cs) - 1)
      RunStart(p) == Min({s \in 1..p : \A t \in s..p : inner[t] = "'"})
      kept == {p \in 1..Len(inner) :
                 inner[p] = "'" => (p - RunStart(p)) % 2 = 0}
      at == Ascending(kept)
  IN  [k \in 1..Len(at) |-> inner[at[k]]]

\* orjson.loads of the text of an array of strings, in chunks: [ then the
\* strings, each from a double quote to the next one, with one comma
\* between two strings, then ].  Err when the text is not of that form.
loads_array(cs) ==
  IF Len(cs) < 2 \/ cs[1] # "[" \/ cs[Len(cs)] # "]" THEN Err(cs)
  ELSE LET body == SubSeq(cs, 2, Len(cs) - 1)
           q == Ascending({p \in 1..Len(body) : body[p] = "\""})
           m == Len(q) \div 2
       IN  IF body = <<>> THEN Ok(L(<<>>))
           ELSE IF /\ Len(q) % 2 = 0
                   /\ m >= 1
                   /\ q[1] = 1
                   /\ q[Len(q)] = Len(body)
                   /\ \A k \in 1..(m - 1) :
                        /\ q[2 * k + 1] = q[2 * k] + 2
                        /\ body[q[2 * k] + 1] = ","
                   /\ \A p \in 1..Len(body) : body[p] # "\\"
                THEN Ok(L([k \in 1..m |->
                             S(JoinStr(SubSeq(body, q[2 * k - 1] + 1,
                                              q[2 * k] - 1), ""))]))
           ELSE Err(cs)

\* The lists of strings the inputs use as a topic's keywords.
KeywordLists ==
  {L(<<>>), L(<<S("k1")>>), L(<<S("k1"), S("k2")>>),
   L(<<S("it's"), S("a, b")>>), L(<<S("Al \"Bo\"")>>)}

\* The text storage keeps for the literal of a list of strings.
StoredText(l) == JoinStr(SqlText(ArrayChunks(l)), "")

\* The texts of lists of strings that reach orjson.loads, each cut into
\* chunks: the ones the inputs carry and the ones storage keeps.
JsonListTexts ==
  {<<"[", "]">>, <<"[", "\"", "k1", "\"", ",", "\"", "k2", "\"", "]">>}
    \cup {SqlText(ArrayChunks(v.l)) : v \in {w \in KeywordLists : Len(w.l) > 0}}

\* orjson.loads of a text: the array the text's chunks spell, Err when the
\* text is not the text of an array of strings.
JsonLoadsList(s) ==
  IF \E cs \in JsonListTexts : JoinStr(cs, "") = s
  THEN loads_array(CHOOSE cs \in JsonListTexts : JoinStr(cs, "") = s)
  ELSE Err(<<s>>)

\* Topic._str_to_list.  orjson.JSONDecodeError is a ValueError, which
\* pydantic turns into a validation failure.
Topic_str_to_list(self) ==
  IF "keywords" \notin DOMAIN self THEN Err(self)
  ELSE IF IsStr(self["keywords"])
       THEN LET r == JsonLoadsList(self["keywords"].s)
            IN  IF r.st = "ok" THEN Ok(Put(self, "keywords", r.data))
                ELSE Inv(self)
  ELSE Ok(self)

\* The before validators of a class run in the reverse of the order in
\* which the class defines them.
BeforeValidators(cls, self) ==
  CASE cls = "Work" ->
         Then(Then(Then(Then(Work_flatten_authorships(self),
                             Work_work_id_ref_related),
                        Work_replicate_id_3),
                   Work_replicate_id_2),
              Work_replicate_id_1)
    [] cls = "WorkAuthorship" -> WorkAuthorship_replicate_id(self)
    [] cls = "Author" -> Author_replicate_id(self)
    [] cls = "Institution" -> Institution_replicate_id(self)
    [] cls = "Source" -> Source_replicate_id(self)
    [] cls = "Publisher" -> Publisher_replicate_id(self)
    [] cls = "Concept" -> Concept_replicate_id(self)
    [] cls = "Topic" -> Then(Topic_str_to_list(self), Topic_replicate_id)
    [] OTHER -> Ok(self)

(***************************************************************************)
(* Field validators (mode "after": they see the validated value) and the   *)
(* mode="after" model validators.  A ValueError is a validation failure.   *)
(***************************************************************************)
\* A variant of Work._validate_best_oa_location that lets every location
\* pass.
Work_validate_best_oa_location_any(value) == Good(value)

Work_validate_best_oa_location(value) ==
  IF value.t = "none" THEN Good(value)
  ELSE IF value.f["is_oa"] # B(TRUE) THEN Bad
  ELSE Good(value)

\* A variant of Work._validate_abstract_inverted_index that keeps an empty
\* index.
Work_validate_abstract_inverted_index_keep(value) == Good(value)

Work_validate_abstract_inverted_index(value) ==
  IF value.t = "none" THEN Good(value)
  ELSE IF DOMAIN value.d = {} THEN Good(None)
  ELSE Good(value)

Author_remove_quotation_marks(v) ==
  IF v.t = "none" THEN None
  ELSE L([i \in 1..Len(v.l) |-> S(Replace(v.l[i].s, "\"", ""))])

Author_check_not_empty(val) ==
  IF val.t = "none" \/ Len(val.l) = 0 THEN None ELSE val

Institution_check_not_empty(val) ==
  IF val.t = "none" \/ Len(val.l) = 0 THEN None ELSE val

Concept_check_not_empty(val) ==
  IF val.t = "none" \/ Len(val.l) = 0 THEN None ELSE val

FieldValidators(cls, name, v) ==
  CASE cls = "Work" /\ name = "best_oa_location" ->
         Work_validate_best_oa_location(v)
    [] cls = "Work" /\ name = "abstract_inverted_index" ->
         Work_validate_abstract_inverted_index(v)
    [] cls = "Author" /\ name = "display_name_alternatives" ->
         Good(Author_check_not_empty(Author_remove_quotation_marks(v)))
    [] cls = "Author" /\ name = "counts_by_year" ->
         Good(Author_check_not_empty(v))
    [] cls = "Institution"
         /\ name \in {"display_name_acronyms", "display_name_alternatives",
                      "associated_institutions", "counts_by_year"} ->
         Good(Institution_check_not_empty(v))
    [] cls = "Concept"
         /\ name \in {"ancestors", "related_concepts", "counts_by_year"} ->
         Good(Concept_check_not_empty(v))
    [] OTHER -> Good(v)

SetAttr(obj, name, v) == Obj(obj.cls, Put(obj.f, name, v))

BaseWorkLocation_populate_source_id(self) ==
  IF self.f["source"].t # "none"
  THEN SetAttr(self, "source_id", self.f["source"].f["id"])
  ELSE self

\* A variant of the after validator that clears author_id instead of
\* comparing it with the embedded author's id.
WorkAuthorship_check_author_id_clear(self) ==
  IF self.f["author"].t # "none" THEN Good(SetAttr(self, "author_id", None))
  ELSE Good(self)

WorkAuthorship_check_author_id(self) ==
  IF self.f["author"].t # "none" /\ self.f["author"].f["id"] # self.f["author_id"]
  THEN Bad
  ELSE Good(self)

\* A variant of the check that lets an entry without host_organization pass.
Institution_check_repositories_null(self) ==
  IF self.f["repositories"].t # "none"
     /\ \E i \in 1..Len(self.f["repositories"].l) :
          /\ self.f["repositories"].l[i].f["host_organization"] # None
          /\ self.f["repositories"].l[i].f["host_organization"] # self.f["id"]
  THEN Bad
  ELSE Good(self)

Institution_check_repositories(self) ==
  IF self.f["repositories"].t # "none"
     /\ \E i \in 1..Len(self.f["repositories"].l) :
          self.f["repositories"].l[i].f["host_organization"] # self.f["id"]
  THEN Bad
  ELSE Good(self)

Topic_check_ids(self) ==
  IF self.f["ids"].t # "none" /\ self.f["ids"].f["openalex"] # self.f["id"]
  THEN Bad
  ELSE Good(self)

\* A variant of the flattening that fills the root's fields only where no
\* value was supplied for them.
Topic_flatten_keep(self) ==
  LET Fill(o, key, v) == IF o.f[key].t = "none" THEN SetAttr(o, key, v) ELSE o
      Up(o, name) ==
        IF o.f[name].t # "none"
        THEN Fill(Fill(o, name \o "_id", o.f[name].f["id"]),
                  name \o "_display_name", o.f[name].f["display_name"])
        ELSE o
  IN  Up(Up(Up(self, "domain"), "field"), "subfield")

Topic_flatten(self) ==
  LET Up(o, name) ==
        IF o.f[name].t # "none"
        THEN SetAttr(SetAttr(o, name \o "_id", o.f[name].f["id"]),
                     name \o "_display_name", o.f[name].f["display_name"])
        ELSE o
  IN  Up(Up(Up(self, "domain"), "field"), "subfield")

AfterValidators(cls, obj) ==
  CASE cls \in {"WorkPrimaryLocation", "WorkLocation", "WorkBestOALocation"} ->
         Good(BaseWorkLocation_populate_source_id(obj))
    [] cls = "WorkAuthorship" -> WorkAuthorship_check_author_id(obj)
    [] cls = "Institution" -> Institution_check_repositories(obj)
    [] cls = "Topic" ->
         LET c == Topic_check_ids(obj)
         IN  IF c.ok THEN Good(Topic_flatten(obj)) ELSE Bad
    [] OTHER -> Good(obj)

(***************************************************************************)
(* pydantic's validation of an input against a class.  The result is       *)
(* [st, obj, inp]: st is "ok", "invalid" (a ValidationError) or "error"    *)
(* (another exception, which ends the validation at once); obj the object  *)
(* built; inp the input as the validators left it (an input mapping is     *)
(* handed to the validators by reference, and they write into it).         *)
(***************************************************************************)
Res(st, obj, inp) == [st |-> st, obj |-> obj, inp |-> inp]

Worse(a, b) ==
  IF a = "error" \/ b = "error" THEN "error"
  ELSE IF a = "invalid" \/ b = "invalid" THEN "invalid"
  ELSE "ok"

\* The key a field is read from: the first of its aliases the input holds.
Lookup(f, d) ==
  LET hits == {i \in 1..Len(f.alias) : f.alias[i] \in DOMAIN d}
  IN  IF hits = {} THEN "" ELSE f.alias[Min(hits)]

RECURSIVE ValidateModel(_, _)

\* The elements of xs with their outcomes rs, from the left, up to the
\* first one that raised: [st, objs, inps].
ListOutcome(xs, rs) ==
  LET errs == {i \in 1..Len(xs) : rs[i].st = "error"}
      stop == IF errs = {} THEN Len(xs) ELSE Min(errs)
  IN  [st |-> IF errs # {} THEN "error"
              ELSE IF \E i \in 1..Len(xs) : rs[i].st = "invalid" THEN "invalid"
              ELSE "ok",
       objs |-> [i \in 1..stop |-> rs[i].obj],
       inps |-> [i \in 1..Len(xs) |-> IF i <= stop THEN rs[i].inp ELSE xs[i]]]

\* Each element of xs against cls.
ValidateList(cls, xs) ==
  ListOutcome(xs, <<>> \o [i \in 1..Len(xs) |-> ValidateModel(cls, xs[i])])

\* The outcome of a nested model (one element) or of a list of them.
NestedOutcome(f, r) ==
  IF f.ty = "model" THEN [st |-> r.st, v |-> r.objs[1], inp |-> r.inps[1]]
  ELSE [st |-> r.st, v |-> L(r.objs), inp |-> L(r.inps)]

ScalarOutcome(c, x) ==
  [st |-> IF c.ok THEN "ok" ELSE "invalid", v |-> c.v, inp |-> x]

\* The value x supplied for field f against the field's type: [st, v, inp],
\* inp being x as validation left it.
ValidateValue(f, x) ==
  IF x.t = "none" THEN
    [st |-> IF f.req THEN "invalid" ELSE "ok", v |-> None, inp |-> x]
  ELSE IF f.ty \in {"model", "listmodel"} THEN
    IF f.ty = "listmodel" /\ ~IsList(x) THEN
      [st |-> "invalid", v |-> None, inp |-> x]
    ELSE
      NestedOutcome(f, ValidateList(f.sub, IF f.ty = "model" THEN <<x>> ELSE x.l))
  ELSE ScalarOutcome(CoerceScalar(f, x), x)

\* The field's own validators on a value that passed its type.
FieldOutcome(cls, f, k, inner) ==
  LET post == IF inner.st = "ok" THEN FieldValidators(cls, f.name, inner.v)
              ELSE Bad
  IN  [st |-> IF inner.st # "ok" THEN inner.st
              ELSE IF post.ok THEN "ok" ELSE "invalid",
       v |-> post.v, k |-> k, inp |-> inner.inp]

\* One field of cls read from the mapping d: [st, v, k, inp].
ValidateField(cls, f, d) ==
  LET k == Lookup(f, d)
  IN  IF k = "" THEN
        [st |-> IF f.req THEN "invalid" ELSE "ok", v |-> None, k |-> k,
         inp |-> None]
      ELSE FieldOutcome(cls, f, k, ValidateValue(f, d[k]))

\* The fields flds with their outcomes rs, in order, up to the first one
\* that raised: [st, f, d], d holding the nested values as validation left
\* them.
FieldsOutcome(flds, d, rs) ==
  LET errs == {i \in 1..Len(flds) : rs[i].st = "error"}
      stop == IF errs = {} THEN Len(flds) ELSE Min(errs)
      Nested(i) == flds[i].ty \in {"model", "listmodel"}
  IN  [st |-> IF errs # {} THEN "error"
              ELSE IF \E i \in 1..Len(flds) : rs[i].st = "invalid" THEN "invalid"
              ELSE "ok",
       f |-> [name \in {flds[i].name : i \in 1..stop} |->
                rs[CHOOSE i \in 1..stop : flds[i].name = name].v],
       d |-> [k \in DOMAIN d |->
                IF \E i \in 1..stop : Nested(i) /\ rs[i].k = k
                THEN rs[CHOOSE i \in 1..stop : Nested(i) /\ rs[i].k = k].inp
                ELSE d[k]]]

ValidateFields(cls, flds, d) ==
  FieldsOutcome(flds, d,
                <<>> \o [i \in 1..Len(flds) |-> ValidateField(cls, flds[i], d)])

\* The model's after validators on the object built from valid fields.
ModelOutcome(cls, r) ==
  IF r.st # "ok" THEN Res(r.st, None, D(r.d))
  ELSE
    LET a == AfterValidators(cls, Obj(cls, r.f))
    IN  IF a.ok THEN Res("ok", a.v, D(r.d)) ELSE Res("invalid", None, D(r.d))

\* The fields of the mapping the before validators returned.
Validated(cls, b) ==
  IF b.st # "ok" THEN Res(b.st, None, D(b.data))
  ELSE ModelOutcome(cls, ValidateFields(cls, ClassOf(cls).fields, b.data))

\* cls.model_validate(x): [st, obj, inp].
ValidateModel(cls, x) ==
  IF ~IsDict(x) THEN Res("invalid", None, x)
  ELSE Validated(cls, BeforeValidators(cls, x.d))

(***************************************************************************)
(* The derived abstract of a Work.                                         *)
(***************************************************************************)
\* The positions of an inverted index: [int(y) for x in index.values() for y in x].
Positions(index) ==
  UNION {{index.d[w].l[j].i : j \in 1..Len(index.d[w].l)} : w \in DOMAIN index.d}

\* A variant of _construct_abstract_from_index with one slot per position
\* below the maximum.
construct_abstract_from_index_short(index) ==
  IF index.t = "none" THEN ""
  ELSE IF Positions(index) = {} THEN ""
  ELSE
    LET max_ == Max(Positions(index))
        At(p) == {w \in DOMAIN index.d :
                    \E j \in 1..Len(index.d[w].l) : index.d[w].l[j].i = p}
        abs_ == [q \in 1..max_ |->
                   IF At(q - 1) = {} THEN "" ELSE CHOOSE w \in At(q - 1) : TRUE]
    IN  JoinStr(abs_, " ")

\* works._construct_abstract_from_index.  The inputs hold no position twice,
\* so the word written last into a slot is the only word written into it.
construct_abstract_from_index(index) ==
  IF index.t = "none" THEN ""
  ELSE IF Positions(index) = {} THEN ""
  ELSE
    LET max_ == Max(Positions(index))
        At(p) == {w \in DOMAIN index.d :
                    \E j \in 1..Len(index.d[w].l) : index.d[w].l[j].i = p}
        abs_ == [q \in 1..(max_ + 1) |->
                   IF At(q - 1) = {} THEN "" ELSE CHOOSE w \in At(q - 1) : TRUE]
    IN  JoinStr(abs_, " ")

\* Work.abstract (a computed field).
Work_abstract(self) ==
  IF self.f["abstract_inverted_index"].t = "none" THEN None
  ELSE S(construct_abstract_from_index(self.f["abstract_inverted_index"]))

(***************************************************************************)
(* SQLTable: the projection of an object into one row.                     *)
(***************************************************************************)
RECURSIVE SortKeys(_, _)
\* The keys of a dict as a sequence, least rank first.
SortKeys(keys, rank) ==
  IF keys = {} THEN <<>>
  ELSE LET k == CHOOSE x \in keys : \A y \in keys : rank[x] <= rank[y]
       IN  <<k>> \o SortKeys(keys \ {k}, rank)

\* str(x) of a number.
NumStr(v) == IF v.t = "int" THEN ToString(v.i) ELSE v.x

\* orjson.dumps of an inverted index (word -> positions), compact.  The keys
\* come in insertion order, which for an index built by reading a text is
\* the order of the words' first positions.
DumpIndex(index) ==
  LET d == index.d
      rank == [w \in DOMAIN d |->
                 IF Len(d[w].l) = 0 THEN 0
                 ELSE Min({d[w].l[j].i : j \in 1..Len(d[w].l)})]
      keys == SortKeys(DOMAIN d, rank)
      Item(w) == "\"" \o w \o "\":["
                 \o JoinStr([j \in 1..Len(d[w].l) |-> NumStr(d[w].l[j])], ",")
                 \o "]"
  IN  "{" \o JoinStr([i \in 1..Len(keys) |-> Item(keys[i])], ",") \o "}"

\* repr(x) of a scalar, as str() of a pydantic object prints its fields, cut
\* into chunks with each quote character a chunk of its own.  A string is
\* put in single quotes, or in double quotes when it holds a single quote
\* and no double quote.
Repr(v) ==
  CASE v.t = "none" -> <<"None">>
    [] v.t = "str" ->
         LET cs == Chars(v.s)
             has(c) == \E i \in 1..Len(cs) : cs[i] = c
             q == IF has("'") /\ ~has("\"") THEN "\"" ELSE "'"
         IN  <<q>> \o cs \o <<q>>
    [] v.t = "bool" -> IF v.b THEN <<"True">> ELSE <<"False">>
    [] v.t \in {"int", "float"} -> <<NumStr(v)>>
    [] OTHER -> <<"...">>

\* str(obj) of a pydantic object, name=repr(value) for each field, with
\* every single quote replaced by two: str(arg).replace("'", "''").
ObjStr(obj) ==
  LET fs == ClassOf(obj.cls).fields
      Doubled(cs) == JoinStr([j \in 1..Len(cs) |->
                                IF cs[j] = "'" THEN "''" ELSE cs[j]], "")
  IN  JoinStr([i \in 1..Len(fs) |->
                 fs[i].name \o "=" \o Doubled(Repr(obj.f[fs[i].name]))], " ")

\* A variant of _get_arg that quotes whatever is not a number, the absent
\* value included.
get_arg_quoted(self, arg_name) ==
  LET arg == self.f[arg_name]
  IN  CASE arg.t = "none" -> "''"
        [] arg.t = "bool" -> IF arg.b THEN "TRUE" ELSE "FALSE"
        [] arg.t \in {"int", "float"} -> NumStr(arg)
        [] arg.t = "str" -> "'" \o Replace(arg.s, "'", "''") \o "'"
        [] OTHER -> "'...'"

\* SQLTable._get_arg: the SQL literal of one attribute.
get_arg(self, arg_name) ==
  LET arg == self.f[arg_name]
      Quoted(s) == "'" \o Replace(s, "'", "''") \o "'"
  IN  CASE arg.t = "none" -> "NULL"
        [] arg.t = "list" /\ Len(arg.l) = 0 -> "NULL"
        [] arg.t = "list" /\ Len(arg.l) > 0 /\ arg.l[1].t = "str" ->
             JoinStr(ArrayChunks(arg.l), "")
        [] arg.t = "list" /\ Len(arg.l) > 0 /\ arg.l[1].t \in {"int", "float"} ->
             "'[" \o JoinStr([i \in 1..Len(arg.l) |-> NumStr(arg.l[i])], ", ")
                  \o "]'"
        [] arg.t = "bool" -> IF arg.b THEN "TRUE" ELSE "FALSE"
        [] arg.t \in {"int", "float"} -> NumStr(arg)
        [] arg.t = "dict" -> "'" \o DumpIndex(arg) \o "'"
        [] arg.t = "str" -> Quoted(arg.s)
        [] arg.t = "obj" -> "'" \o ObjStr(arg) \o "'"
        [] OTHER -> "'...'"

\* The names SQLTable.sql_columns joins with ", " inside "(...)".
sql_columns(self) == ClassOf(self.cls).sql_order

\* A variant of sql_values that lists the literals in reverse column order.
sql_values_reversed(self) ==
  LET order == ClassOf(self.cls).sql_order
  IN  [i \in 1..Len(order) |-> get_arg(self, order[Len(order) + 1 - i])]

\* The literals SQLTable.sql_values joins with ", " inside "(...)".
sql_values(self) ==
  LET order == ClassOf(self.cls).sql_order
  IN  [i \in 1..Len(order) |-> get_arg(self, order[i])]

\* The body of the loop of SQLTable.to_sql_values: the parameter for one
\* attribute value.
to_sql_value(value) ==
  IF value.t = "dict" THEN S(DumpIndex(value))
  ELSE IF value.t = "str" /\ value.s \in IsoStrings THEN Dt(ParseIso(value.s))
  ELSE value

\* SQLTable.to_sql_values: the tuple of parameters for a parameterized query.
to_sql_values(self) ==
  LET order == ClassOf(self.cls).sql_order
  IN  [i \in 1..Len(order) |-> to_sql_value(self.f[order[i]])]

\* One INSERT of example_upload.process_work_item.
Row(sub, idx, a) ==
  [sub |-> sub, idx |-> idx, table |-> ClassOf(a.cls).sql_table_name,
   cols |-> sql_columns(a), vals |-> sql_values(a), params |-> to_sql_values(a)]

\* A variant of the loop over a subtable that inserts a list's elements last
\* to first.
SubRows_reversed(obj, subtable) ==
  LET attr_ == obj.f[subtable]
  IN  IF attr_.t = "none" THEN <<>>
      ELSE IF attr_.t = "list"
           THEN [j \in 1..Len(attr_.l) |->
                   Row(subtable, j, attr_.l[Len(attr_.l) + 1 - j])]
      ELSE <<Row(subtable, 1, attr_)>>

\* The INSERTs of process_work_item for one subtable, in order.
SubRows(obj, subtable) ==
  LET attr_ == obj.f[subtable]
  IN  IF attr_.t = "none" THEN <<>>
      ELSE IF attr_.t = "list"
           THEN [j \in 1..Len(attr_.l) |-> Row(subtable, j, attr_.l[j])]
      ELSE <<Row(subtable, 1, attr_)>>

\* example_upload.process_work_item: the root row, then each subtable's.
Projection(obj) ==
  LET subs == SqlSubtables(obj.cls)
  IN  <<Row("", 1, obj)>> \o Flat([i \in 1..Len(subs) |-> SubRows(obj, subs[i])])

(***************************************************************************)
(* Hydration: from_sql with the subtables already queried.  t is the root  *)
(* row; subtables maps a subtable name to its rows (one-to-many) or its    *)
(* row (one-to-one).                                                       *)
(***************************************************************************)
\* dict(zip(order, t))
ZipDict(order, t) ==
  LET n == IF Len(order) < Len(t) THEN Len(order) ELSE Len(t)
  IN  D([k \in {order[i] : i \in 1..n} |->
           t[CHOOSE i \in 1..n : order[i] = k]])

SubClass(cls, subtable) ==
  LET fs == ClassOf(cls).fields
  IN  fs[CHOOSE i \in 1..Len(fs) : fs[i].name = subtable].sub

\* A variant of the keyword arguments that leaves the subtables out.
from_sql_args_root(cls, t, subtables) ==
  ZipDict(ClassOf(cls).sql_order, t).d

\* The keyword arguments from_sql builds.
from_sql_args(cls, t, subtables) ==
  LET args == ZipDict(ClassOf(cls).sql_order, t).d
      given == {k \in DOMAIN subtables :
                  \E i \in 1..Len(SqlSubtables(cls)) : SqlSubtables(cls)[i] = k}
      Arg(subtable) ==
        LET order == ClassOf(SubClass(cls, subtable)).sql_order
            rs == subtables[subtable]
        IN  IF cls = "Work" /\ subtable \in {"referenced_works", "related_works"}
            THEN L([j \in 1..Len(rs) |-> rs[j][2]])
            ELSE IF subtable \in MULTIVALUE(cls)
                 THEN L([j \in 1..Len(rs) |-> ZipDict(order, rs[j])])
            ELSE IF rs = None THEN None
            ELSE ZipDict(order, rs)
  IN  [k \in DOMAIN args \cup given |-> IF k \in given THEN Arg(k) ELSE args[k]]

\* Whether building the keyword arguments raises: zip(order, None), for a
\* one-to-one subtable the mapping holds without a row, is a TypeError.
from_sql_raises(cls, subtables) ==
  \E k \in DOMAIN subtables :
    /\ \E i \in 1..Len(SqlSubtables(cls)) : SqlSubtables(cls)[i] = k
    /\ k \notin MULTIVALUE(cls)
    /\ subtables[k] = None

\* The rows a cursor fetches from a subtable by work_id.
Fetched(table, subtable, id_) ==
  SelectSeq(table, LAMBDA r : /\ r.sub = subtable
                              /\ id_ # None
                              /\ \E c \in 1..Len(r.cols) :
                                   r.cols[c] = "work_id" /\ r.params[c] = id_)

\* The keyword arguments Work.from_sql builds when it is given a
\* connection: each subtable is queried by the root row's id; a one-to-many
\* subtable is set when rows came back, a one-to-one subtable when a row
\* came back.
from_sql_conn_args(t, table) ==
  LET cls == "Work"
      args == ZipDict(ClassOf(cls).sql_order, t).d
      id_ == t[1]
      names == {SqlSubtables(cls)[i] : i \in 1..Len(SqlSubtables(cls))}
      given == {k \in names : Fetched(table, k, id_) # <<>>}
      Arg(subtable) ==
        LET order == ClassOf(SubClass(cls, subtable)).sql_order
            rs == Fetched(table, subtable, id_)
        IN  IF subtable \in {"referenced_works", "related_works"}
            THEN L([j \in 1..Len(rs) |-> rs[j].params[2]])
            ELSE IF subtable \in MULTIVALUE(cls)
                 THEN L([j \in 1..Len(rs) |-> ZipDict(order, rs[j].params)])
            ELSE ZipDict(order, rs[1].params)
  IN  [k \in DOMAIN args \cup given |-> IF k \in given THEN Arg(k) ELSE args[k]]

(***************************************************************************)
(* Model construction from raw: the keyword arguments are a new mapping    *)
(* with raw's values, so a validator that assigns a key of `self` leaves   *)
(* raw's key alone, and one that writes into a value of `self` writes into *)
(* raw's.                                                                  *)
(***************************************************************************)
\* Whether Work._flatten_authorships replaces this authorship by copies.
Expanded(authorship) ==
  /\ IsDict(authorship)
  /\ check("institutions", authorship.d)
  /\ Len(authorship.d["institutions"].l) > 0

\* The caller's mapping after the construction, given the keyword arguments as
\* the validators left them.
WriteBack(cls, raw, inp) ==
  [k \in DOMAIN raw |->
     IF cls = "Work" /\ k = "authorships" /\ check(k, raw)
        /\ Work_flatten_authorships(raw).st = "ok"
     THEN
       LET as == raw[k].l
           Off(i) == 1 + SumSeq([j \in 1..(i - 1) |-> Len(FlattenOne(as[j]))])
       IN  L([i \in 1..Len(as) |->
                IF Expanded(as[i]) THEN as[i] ELSE inp[k].l[Off(i)]])
     ELSE IF cls = "Topic" /\ k = "keywords" THEN raw[k]
     ELSE inp[k]]

\* Model construction for a class: [st, obj] and the caller's mapping.
Constructed(cls, raw, r) ==
  [st |-> r.st, obj |-> r.obj, raw |-> WriteBack(cls, raw, r.inp.d)]

Construct(cls, raw) == Constructed(cls, raw, ValidateModel(cls, D(raw)))

(***************************************************************************)
(* Bounds and inputs.                                                      *)
(***************************************************************************)
MaxWords == 3
MaxInstitutions == 2
MaxRefs == 2
MaxSubmits == 2

Words == {"the", "cat"}
SeqsUpTo(set, n) == UNION {[1..k -> set] : k \in 0..n}
WordSeqs == SeqsUpTo(Words, MaxWords) \ {<<>>}

\* The inverted index of a text: each word to its zero-based positions.
IndexOf(w) ==
  D([word \in {w[i] : i \in 1..Len(w)} |->
       L([j \in 1..Cardinality({i \in 1..Len(w) : w[i] = word}) |->
            I(CHOOSE p \in 0..(Len(w) - 1) :
                /\ w[p + 1] = word
                /\ Cardinality({q \in 0..p : w[q + 1] = word}) = j)])])

IdOf(kind) ==
  CASE kind = "works" -> "W1" [] kind = "authors" -> "A1"
    [] kind = "institutions" -> "I1" [] kind = "sources" -> "S1"
    [] kind = "publishers" -> "P1" [] kind = "concepts" -> "C1"
    [] kind = "topics" -> "T1"

Base(kind) ==
  IF kind = "topics" THEN [id |-> S(IdOf(kind)), keywords |-> None]
  ELSE [id |-> S(IdOf(kind))]

InstitutionLists ==
  {L([i \in 1..Len(q) |-> D([id |-> S(q[i])])]) :
     q \in SeqsUpTo({"I1", "I2"}, MaxInstitutions)}

AuthorshipBases ==
  { [raw_affiliation_string |-> S("Univ")],
    [author |-> D([id |-> S("A1")])],
    [author |-> D([id |-> S("A1")]), author_id |-> S("A9")],
    [author_id |-> S("A9"), institution_id |-> S("I9")] }

WithInstitutions(a) ==
  {D(a), D(Put(a, "institutions", None))}
    \cup {D(Put(a, "institutions", il)) : il \in InstitutionLists}

Authorships == UNION {WithInstitutions(a) : a \in AuthorshipBases}

AuthorshipLists ==
  {L(<<>>)} \cup {L(<<a>>) : a \in Authorships}
    \cup {L(<<a, b>>) :
            a \in WithInstitutions([author |-> D([id |-> S("A1")])]),
            b \in WithInstitutions([raw_affiliation_string |-> S("Univ")])}

RefLists ==
  {L([i \in 1..Len(q) |-> S(q[i])]) : q \in SeqsUpTo({"W2", "W3"}, MaxRefs)}

CountsByYear ==
  {L(<<>>), L(<<D([year |-> I(2020), works_count |-> I(1)])>>),
   L(<<D([year |-> I(2020)]), D([year |-> I(2021), cited_by_count |-> I(4)])>>)}

Opts(key, values) == {<<key, v>> : v \in values}

WorkCore ==
  Opts("ids", {D([openalex |-> S("W1"), mag |-> I(7)])})
    \cup Opts("best_oa_location",
              {D([is_oa |-> B(TRUE)]), D([is_oa |-> B(FALSE)])})
    \cup Opts("topics", {L(<<D([id |-> S("T1"), score |-> Fl("0.5")])>>)})
    \cup Opts("authorships",
              {L(<<D([author |-> D([id |-> S("A1")]),
                      institutions |-> L(<<D([id |-> S("I1")]),
                                           D([id |-> S("I2")])>>)])>>)})
    \cup Opts("related_works", {L(<<S("W2"), S("W3")>>)})
    \cup Opts("abstract_inverted_index", {IndexOf(<<"the", "cat">>)})
    \cup Opts("locations", {L(<<>>), L(<<D([pdf_url |-> S("u")])>>)})
    \cup Opts("title", {S("it's")})

WorkOptions ==
  WorkCore
    \cup Opts("title", {S("A study"), S(""), None})
    \cup Opts("publication_date", {S("2020-01-02")})
    \cup Opts("is_retracted", {B(FALSE)})
    \cup Opts("cited_by_count", {I(3)})
    \cup Opts("fwci", {Fl("1.5")})
    \cup Opts("abstract_inverted_index",
              {None, D(EmptyDict), D([a |-> L(<<>>)])}
                \cup {IndexOf(w) : w \in WordSeqs})
    \cup Opts("ids", {D([work_id |-> S("W9"), doi |-> S("10.1/x")]), None})
    \cup Opts("biblio", {D([volume |-> S("1")]), D([work_id |-> S("W9")]),
                         D([volume |-> S(""), issue |-> None])})
    \cup Opts("open_access", {D([is_oa |-> B(TRUE), oa_status |-> S("gold")])})
    \cup Opts("primary_location",
              {D([is_oa |-> B(FALSE)]),
               D([source |-> D([id |-> S("S1")]), source_id |-> S("S9")])})
    \cup Opts("best_oa_location",
              {None, D(EmptyDict), D([is_oa |-> None]),
               D([is_oa |-> B(FALSE), work_id |-> S("W9")]),
               D([is_oa |-> B(TRUE), source |-> D([id |-> S("S1")])]),
               D([is_oa |-> B(FALSE), version |-> S("draft")])})
    \cup Opts("locations",
              {L(<<D([is_oa |-> B(TRUE)]), D([work_id |-> S("W9")])>>)})
    \cup Opts("authorships", AuthorshipLists)
    \cup Opts("topics",
              {L(<<>>), L(<<D([topic_id |-> S("T1"), score |-> Fl("0.5")])>>),
               L(<<D([work_id |-> S("W9"), topic_id |-> S("T1")]),
                   D([id |-> S("T2")])>>)})
    \cup Opts("concepts", {L(<<>>), L(<<D([concept_id |-> S("C1")])>>)})
    \cup Opts("mesh",
              {L(<<>>),
               L(<<D([descriptor_ui |-> S("D1"), is_major_topic |-> B(TRUE)])>>)})
    \cup Opts("related_works", RefLists)
    \cup Opts("referenced_works", RefLists)
    \cup Opts("counts_by_year",
              {L(<<D([year |-> I(2020), cited_by_count |-> I(1)])>>)})

\* Timestamps for updated_date: with a fraction of a second, with the UTC
\* designator, with a fraction and another offset, and of a year before
\* 1000.
UpdatedDates ==
  {S("2020-01-02T03:04:05.123456"), S("2020-01-02T03:04:05Z"),
   S("2020-01-02T03:04:05.123456+05:00"), S("0999-01-02T03:04:05")}

AuthorOptions ==
  Opts("display_name_alternatives",
       {L(<<>>), L(<<S("Al")>>), L(<<S("Al \"Bo\""), S("it's")>>), None})
    \cup Opts("counts_by_year",
              CountsByYear
                \cup {L(<<D([year |-> I(2020), author_id |-> S("A9")])>>)})
    \cup Opts("ids", {D([orcid |-> S("0000")]), D([author_id |-> S("A9")])})
    \cup Opts("updated_date", UpdatedDates)
    \cup Opts("affiliations", {L(<<>>)})
    \cup Opts("works_count", {I(5)})

Repositories ==
  {D([id |-> S("S1"), host_organization |-> S("I1")]),
   D([id |-> S("S2"), host_organization |-> S("I2")]),
   D([id |-> S("S3"), host_organization |-> None]),
   D([id |-> S("S4")])}

RepositoryLists ==
  {None, L(<<>>)} \cup {L(<<r>>) : r \in Repositories}
    \cup {L(<<D([id |-> S("S1"), host_organization |-> S("I1")]), r>>) :
            r \in Repositories}

InstitutionOptions ==
  Opts("updated_date", UpdatedDates)
    \cup Opts("geo", {D([city |-> S("X")]), D([institution_id |-> S("I9")])})
    \cup Opts("counts_by_year", CountsByYear)
    \cup Opts("ids", {D([ror |-> S("r1")])})
    \cup Opts("associated_institutions",
              {L(<<>>),
               L(<<D([id |-> S("I2"), relationship |-> S("parent")])>>)})
    \cup Opts("display_name_acronyms", {L(<<>>), L(<<S("MIT")>>)})
    \cup Opts("display_name_alternatives", {L(<<>>)})
    \cup Opts("repositories", RepositoryLists)
    \cup Opts("lineage", {L(<<>>), L(<<S("I1")>>)})
    \cup Opts("country_code", {S("US")})

SourceOptions ==
  Opts("counts_by_year", CountsByYear)
    \cup Opts("ids", {D([issn_l |-> S("1234-5678")]),
                      D([source_id |-> S("S9"), issn |-> L(<<>>)])})
    \cup Opts("issn", {L(<<>>), L(<<S("1234-5678")>>)})
    \cup Opts("is_oa", {B(TRUE)})
    \cup Opts("updated_date", UpdatedDates)

PublisherOptions ==
  Opts("updated_date", UpdatedDates)
    \cup Opts("counts_by_year", CountsByYear)
    \cup Opts("ids", {D([ror |-> S("r1")]), D([publisher_id |-> S("P9")])})
    \cup Opts("alternate_titles",
              {L(<<>>), L(<<S("Pub")>>), L(<<S("it's"), S("a, b")>>),
               L(<<S("Al \"Bo\"")>>)})
    \cup Opts("country_codes", {L(<<S("US")>>)})
    \cup Opts("parent_publisher",
              {D([id |-> S("P0"), display_name |-> S("Parent")])})
    \cup Opts("hierarchy_level", {I(1)})

ConceptOptions ==
  Opts("updated_date", UpdatedDates)
    \cup Opts("ancestors", {L(<<>>), L(<<D([id |-> S("C0")])>>)})
    \cup Opts("related_concepts",
              {L(<<>>), L(<<D([id |-> S("C2"), score |-> Fl("0.5")])>>)})
    \cup Opts("counts_by_year", CountsByYear)
    \cup Opts("ids", {D([wikidata |-> S("Q1")]), D([concept_id |-> S("C9")])})
    \cup Opts("level", {I(0)})

TopicOptions ==
  Opts("updated_date", UpdatedDates)
    \cup Opts("keywords", KeywordLists \cup {S("[\"k1\",\"k2\"]"), S("[]"), S("k1")})
    \cup Opts("domain", {D([id |-> S("D1"), display_name |-> S("Dom")])})
    \cup Opts("domain_id", {S("D9")})
    \cup Opts("field", {D([id |-> S("F1"), display_name |-> S("Fld")])})
    \cup Opts("subfield", {D([id |-> S("SF1"), display_name |-> S("Sub")])})
    \cup Opts("subfield_id", {S("SF9")})
    \cup Opts("subfield_display_name", {S("Old")})
    \cup Opts("ids", {D([wikipedia |-> S("w")])})

Options(kind) ==
  CASE kind = "works" -> WorkOptions
    [] kind = "authors" -> AuthorOptions
    [] kind = "institutions" -> InstitutionOptions
    [] kind = "sources" -> SourceOptions
    [] kind = "publishers" -> PublisherOptions
    [] kind = "concepts" -> ConceptOptions
    [] kind = "topics" -> TopicOptions

\* The options of a kind that are also combined in pairs.
PairOptions(kind) == IF kind = "works" THEN WorkCore ELSE Options(kind)

\* Records with more than two fields besides the id.
Extras(kind) ==
  IF kind = "topics"
  THEN {[id |-> S("T1"), keywords |-> None,
         domain |-> D([id |-> S("D1"), display_name |-> S("Dom")]),
         domain_id |-> S("D9"), domain_display_name |-> S("Old"),
         subfield_id |-> S("SF9"), subfield_display_name |-> S("Old")]}
  ELSE {}

\* The raw mapping that holds the id and nothing else.
IdOnly(kind) == [id |-> S(IdOf(kind))]

\* A raw mapping without its id.
WithoutId(r) == [k \in DOMAIN r \ {"id"} |-> r[k]]

\* The raw mappings of a kind: the id alone, with one more field, with two
\* more fields, and the first two without the id.
RawInputs(kind) ==
  {Base(kind), IdOnly(kind)}
    \cup Extras(kind)
    \cup {Put(Base(kind), o[1], o[2]) : o \in Options(kind)}
    \cup {WithoutId(Base(kind))}
    \cup {WithoutId(Put(Base(kind), o[1], o[2])) : o \in Options(kind)}
    \cup {Put(Put(Base(kind), op[1][1], op[1][2]), op[2][1], op[2][2]) :
            op \in {q \in PairOptions(kind) \X PairOptions(kind) :
                      q[1][1] # q[2][1]}}

Kinds == DOMAIN PYDANTIC_MODELS

\* utils.SQL_TABLE_NAMES: per kind, the tables to drop and recreate.
SQL_TABLE_NAMES ==
  [works |-> <<"openalex.nomic_embed_text_768", "openalex.works",
               "openalex.works_primary_locations", "openalex.works_locations",
               "openalex.works_authorships", "openalex.works_biblio",
               "openalex.works_topics", "openalex.works_concepts",
               "openalex.works_ids", "openalex.works_mesh",
               "openalex.works_open_access",
               "openalex.works_referenced_works",
               "openalex.works_related_works">>,
   authors |-> <<"openalex.authors", "openalex.authors_counts_by_year",
                 "openalex.authors_ids">>,
   topics |-> <<"openalex.topics">>,
   concepts |-> <<"openalex.concepts", "openalex.concepts_ancestors",
                  "openalex.concepts_counts_by_year", "openalex.concepts_ids",
                  "openalex.concepts_related_concepts">>,
   institutions |-> <<"openalex.institutions",
                      "openalex.institutions_associated_institutions",
                      "openalex.institutions_counts_by_year",
                      "openalex.institutions_geo",
                      "openalex.institutions_ids">>,
   publishers |-> <<"openalex.publishers",
                    "openalex.publishers_counts_by_year",
                    "openalex.publishers_ids">>,
   sources |-> <<"openalex.sources", "openalex.sources_counts_by_year",
                 "openalex.sources_ids">>]

(***************************************************************************)
(* The state machine: a caller holds a raw mapping of some kind, submits   *)
(* it for normalization (once, or again), projects the object into rows    *)
(* and hydrates an object back from the rows.                              *)
(***************************************************************************)
VARIABLES
  kind,     \* the kind tag of the record
  raw0,     \* the raw mapping as the caller built it
  raw,      \* the caller's raw mapping now
  n,        \* how many times it was submitted
  first,    \* the outcome of the first submission
  result,   \* the outcome of the latest submission
  rows,     \* the rows projected from the latest object
  hyd,      \* the outcome of hydrating from the rows
  pc,
  file,           \* the lines of the snapshot file, each decoded or not JSON
  type_,          \* as_pydantic: the kind tag asked for
  lines,          \* as_pydantic: the lines argument, then the lines at hand
  linesRead,      \* whether read_lines has read the file
  pydantic_objs,  \* as_pydantic: the objects built so far
  bpc,            \* as_pydantic: where the call is
  tpc,            \* process_work_item: where the task of each line is
  work_,          \* process_work_item: the Work each task built
  cur,            \* the rows each task's cursor has executed
  conn,           \* the transaction status of each task's connection
  committed       \* the rows storage holds, by the task that wrote them

recordVars == <<kind, raw0, raw, n, first, result, rows, hyd, pc>>
batchVars == <<type_, lines, linesRead, pydantic_objs, bpc>>
uploadVars == <<tpc, work_, cur, conn, committed>>
vars == <<pad_year, kind, raw0, raw, n, first, result, rows, hyd, pc,
          file, type_, lines, linesRead, pydantic_objs, bpc,
          tpc, work_, cur, conn, committed>>

NoResult == [st |-> "none", obj |-> None]

\* No upload is running.
NoUpload ==
  /\ tpc = <<>>
  /\ work_ = <<>>
  /\ cur = <<>>
  /\ conn = <<>>
  /\ committed = <<>>

\* as_pydantic is not running.
NoBatch ==
  /\ type_ = ""
  /\ lines = None
  /\ linesRead = FALSE
  /\ pydantic_objs = <<>>
  /\ bpc = "idle"

\* Whether a raw mapping holds a timestamp of a year before 1000, the only
\* timestamps on which the platforms differ.  Where no such timestamp is
\* read the platform cannot be told apart and pad_year is left FALSE.
EarlyYear(r) ==
  \E k \in DOMAIN r :
    IsStr(r[k]) /\ r[k].s \in IsoStrings /\ ParseIso(r[k].s).year < 1000

Init ==
  /\ kind \in Kinds
  /\ raw0 \in RawInputs(kind)
  /\ pad_year \in IF EarlyYear(raw0) THEN BOOLEAN ELSE {FALSE}
  /\ raw = raw0
  /\ n = 0
  /\ first = NoResult
  /\ result = NoResult
  /\ rows = <<>>
  /\ hyd = NoResult
  /\ pc = "raw"
  /\ file = <<>>
  /\ NoBatch
  /\ NoUpload

\* Model construction from raw, as SnapshotGZ.as_pydantic and
\* process_work_item do.
Normalize ==
  /\ pc \in {"raw", "normalized"}
  /\ n < MaxSubmits
  /\ LET c == Construct(PYDANTIC_MODELS[kind], raw)
     IN  /\ result' = [st |-> c.st, obj |-> c.obj]
         /\ raw' = c.raw
         /\ first' = IF n = 0 THEN [st |-> c.st, obj |-> c.obj] ELSE first
  /\ n' = n + 1
  /\ pc' = "normalized"
  /\ UNCHANGED <<kind, raw0, rows, hyd>>
  /\ UNCHANGED <<pad_year, file, batchVars, uploadVars>>

\* The INSERTs of process_work_item for the object.
Project ==
  /\ pc = "normalized"
  /\ result.st = "ok"
  /\ rows' = Projection(result.obj)
  /\ pc' = "projected"
  /\ UNCHANGED <<kind, raw0, raw, n, first, result, hyd>>
  /\ UNCHANGED <<pad_year, file, batchVars, uploadVars>>

\* The subtables mapping a caller builds from the rows: every subtable that
\* has rows, and (withEmpty) the one-to-many subtables that have none, with
\* an empty list, and (withNone) the one-to-one subtables that have none,
\* with None, as fetchall() and fetchone() return them.
Subtables(cls, rs, withEmpty, withNone) ==
  LET Of(name) == SelectSeq(rs, LAMBDA r : r.sub = name)
      names == {SqlSubtables(cls)[i] : i \in 1..Len(SqlSubtables(cls))}
      given == {k \in names :
                  \/ Of(k) # <<>>
                  \/ withEmpty /\ k \in MULTIVALUE(cls)
                  \/ withNone /\ k \notin MULTIVALUE(cls)}
  IN  [k \in given |->
         IF k \in MULTIVALUE(cls)
         THEN [j \in 1..Len(Of(k)) |-> Of(k)[j].params]
         ELSE IF Of(k) = <<>> THEN None
         ELSE Of(k)[1].params]

\* The outcome of from_sql(t, subtables=...): [st, obj].
from_sql(cls, t, subtables) ==
  IF from_sql_raises(cls, subtables) THEN [st |-> "error", obj |-> None]
  ELSE LET c == Construct(cls, from_sql_args(cls, t, subtables))
       IN  [st |-> c.st, obj |-> c.obj]

\* The outcome of Work.from_sql(t, conn=...): [st, obj].
from_sql_conn(t, table) ==
  LET c == Construct("Work", from_sql_conn_args(t, table))
  IN  [st |-> c.st, obj |-> c.obj]

\* from_sql(t, subtables=...) on the projected rows.
Hydrate ==
  /\ pc = "projected"
  /\ \E withEmpty \in BOOLEAN, withNone \in BOOLEAN :
       LET cls == PYDANTIC_MODELS[kind]
       IN  hyd' = from_sql(cls, rows[1].params,
                           Subtables(cls, rows, withEmpty, withNone))
  /\ pc' = "hydrated"
  /\ UNCHANGED <<kind, raw0, raw, n, first, result, rows>>
  /\ UNCHANGED <<pad_year, file, batchVars, uploadVars>>

\* The foreign-key name the subentities of a root class carry.
ForeignKey(cls) ==
  CASE cls = "Work" -> "work_id" [] cls = "Author" -> "author_id"
    [] cls = "Institution" -> "institution_id" [] cls = "Source" -> "source_id"
    [] cls = "Publisher" -> "publisher_id" [] cls = "Concept" -> "concept_id"
    [] OTHER -> ""

\* The rows rs with the value of column c of row x replaced by v.
Replaced(rs, x, c, v) == [rs EXCEPT ![x].params[c] = v]

\* What a text column keeps of a list of strings written as its literal:
\* the literal's text, and nothing for NULL.
AsStored(v) ==
  IF IsList(v) /\ Len(v.l) > 0 THEN S(StoredText(v.l)) ELSE None

\* What storage may hold for the record when it is read back: the rows as
\* projected, or with one value another writer changed (an is_oa flag, a
\* subentity's foreign key, the root's id), or with a topic's keywords as
\* the text of their literal.
StoredRows(cls, rs) ==
  {rs} \cup UNION {
    {Replaced(rs, x, c, v) :
       v \in IF rs[x].cols[c] = "is_oa" THEN {None, B(FALSE)}
             ELSE IF cls = "Topic" /\ x = 1 /\ rs[x].cols[c] = "keywords"
                     /\ IsList(rs[x].params[c])
                  THEN {AsStored(rs[x].params[c])}
             ELSE IF x > 1 /\ rs[x].cols[c] = ForeignKey(cls) THEN {S("X9")}
             ELSE IF x = 1 /\ rs[x].cols[c] = "id" THEN {None}
             ELSE {}} :
    <<x, c>> \in UNION {{<<y, d>> : d \in 1..Len(rs[y].cols)} :
                          y \in 1..Len(rs)}}

\* from_sql(t, subtables=...) on the rows storage holds.
HydrateStored ==
  /\ pc = "projected"
  /\ \E stored \in StoredRows(PYDANTIC_MODELS[kind], rows),
        withEmpty \in BOOLEAN, withNone \in BOOLEAN :
       LET cls == PYDANTIC_MODELS[kind]
       IN  /\ hyd' = from_sql(cls, stored[1].params,
                              Subtables(cls, stored, withEmpty, withNone))
           /\ rows' = stored
  /\ pc' = "rehydrated"
  /\ UNCHANGED <<kind, raw0, raw, n, first, result>>
  /\ UNCHANGED <<pad_year, file, batchVars, uploadVars>>

\* Work.from_sql(t, conn=...) on the rows storage holds.
HydrateConn ==
  /\ pc = "projected"
  /\ kind = "works"
  /\ \E stored \in StoredRows("Work", rows) :
       /\ hyd' = from_sql_conn(stored[1].params, stored)
       /\ rows' = stored
  /\ pc' = "fetched"
  /\ UNCHANGED <<kind, raw0, raw, n, first, result>>
  /\ UNCHANGED <<pad_year, file, batchVars, uploadVars>>

Next == Normalize \/ Project \/ Hydrate \/ HydrateStored \/ HydrateConn

Spec == Init /\ [][Next]_vars

(***************************************************************************)
(* SnapshotGZ.as_pydantic: the lines of a snapshot file, or the lines the  *)
(* caller passes, are decoded and normalized one after the other into a    *)
(* list of objects of the kind asked for.                                  *)
(***************************************************************************)
MaxLines == 3

\* A line that is not JSON.
Garbage == S("{")

\* orjson.loads(line): the decoded mapping, or a JSONDecodeError.
loads(line) == IF IsDict(line) THEN Ok(line.d) ELSE Err(line)

\* The lines a snapshot file of a kind may hold: records that normalize,
\* one without its id, one whose subentity cannot be read, and one that is
\* not JSON.
LineChoices(k) ==
  {D(Base(k)), D(Put(Base(k), "display_name", S("n"))),
   D(WithoutId(Base(k))), D(Put(Base(k), "ids", S("x"))), Garbage}

\* The kind tags a caller may ask for: those of TYPES, one the registry
\* does not have, and the empty tag.
TypeTags == Kinds \cup {"funders", ""}

\* The condition under which as_pydantic goes on.
KnownType_nonempty(t) == t # ""

KnownType(t) == t # "" /\ t \in DOMAIN PYDANTIC_MODELS

\* The record variables while a file is processed.
NoRecord ==
  /\ kind = "works"
  /\ raw0 = Base("works")
  /\ raw = raw0
  /\ n = 0
  /\ first = NoResult
  /\ result = NoResult
  /\ rows = <<>>
  /\ hyd = NoResult
  /\ pc = "idle"

BatchInit ==
  /\ NoRecord
  /\ pad_year = FALSE
  /\ type_ \in TypeTags
  /\ file \in SeqsUpTo(LineChoices(IF type_ \in Kinds THEN type_ ELSE "works"),
                       MaxLines)
  /\ lines \in {None, L(file)}
  /\ linesRead = FALSE
  /\ pydantic_objs = <<>>
  /\ bpc = "called"
  /\ NoUpload

\* as_pydantic up to the loop: the check of type_, read_lines when no lines
\* were passed, and the lookup of the model.
AsPydanticEnter ==
  /\ bpc = "called"
  /\ IF ~KnownType(type_)
     THEN /\ bpc' = "raised"
          /\ UNCHANGED <<lines, linesRead>>
     ELSE /\ lines' = IF lines = None THEN L(file) ELSE lines
          /\ linesRead' = (lines = None)
          /\ bpc' = IF type_ \in DOMAIN PYDANTIC_MODELS THEN "loop"
                    ELSE "raised"
  /\ UNCHANGED <<file, type_, pydantic_objs>>
  /\ UNCHANGED <<pad_year, recordVars, uploadVars>>

\* One turn of the loop: the line is decoded and the model constructed; the
\* object is appended, or the exception is logged and raised again.
AsPydanticLine ==
  /\ bpc = "loop"
  /\ Len(pydantic_objs) < Len(lines.l)
  /\ LET line == lines.l[Len(pydantic_objs) + 1]
         c == IF loads(line).st = "ok"
              THEN Construct(PYDANTIC_MODELS[type_], loads(line).data)
              ELSE [st |-> "error", obj |-> None]
     IN  IF c.st = "ok"
         THEN /\ pydantic_objs' = Append(pydantic_objs, c.obj)
              /\ bpc' = bpc
         ELSE /\ bpc' = "raised"
              /\ UNCHANGED pydantic_objs
  /\ UNCHANGED <<file, type_, lines, linesRead>>
  /\ UNCHANGED <<pad_year, recordVars, uploadVars>>

\* The return after the last line.
AsPydanticReturn ==
  /\ bpc = "loop"
  /\ Len(pydantic_objs) = Len(lines.l)
  /\ bpc' = "returned"
  /\ UNCHANGED <<file, type_, lines, linesRead, pydantic_objs>>
  /\ UNCHANGED <<pad_year, recordVars, uploadVars>>

BatchNext == AsPydanticEnter \/ AsPydanticLine \/ AsPydanticReturn

BatchSpec == BatchInit /\ [][BatchNext]_vars

(***************************************************************************)
(* example_upload: a thread pool maps process_work_item over the lines of  *)
(* a works file.  Each task takes a connection of the pool, builds the     *)
(* Work, executes one INSERT per row and commits.  A statement the server  *)
(* rejects raises and leaves the transaction aborted; every exception is   *)
(* printed and swallowed inside the connection block, so the block is left *)
(* normally and the connection sends COMMIT, which an aborted transaction  *)
(* answers by rolling back.                                                *)
(***************************************************************************)
MaxItems == 2

max_workers == 10

\* The lines of the works file: a work with its ids, a work whose one
\* authorship has two institutions, and a record without id.
UploadLines ==
  {D(Put(Base("works"), "ids", D([doi |-> S("10.1/x")]))),
   D(Put(Base("works"), "authorships",
         L(<<D([author |-> D([id |-> S("A1")]),
                institutions |-> L(<<D([id |-> S("I1")]),
                                     D([id |-> S("I2")])>>)])>>))),
   D(WithoutId(Base("works")))}

Tasks == 1..Len(file)

Running == {j \in Tasks : tpc[j] \in {"insert", "failed"}}

UploadInit ==
  /\ NoRecord
  /\ pad_year = FALSE
  /\ NoBatch
  /\ file \in SeqsUpTo(UploadLines, MaxItems) \ {<<>>}
  /\ tpc = [i \in Tasks |-> "queued"]
  /\ work_ = [i \in Tasks |-> None]
  /\ cur = [i \in Tasks |-> <<>>]
  /\ conn = [i \in Tasks |-> "IDLE"]
  /\ committed = [i \in Tasks |-> <<>>]

\* A variant of the construction that keeps work_ in a variable all the
\* tasks share.
WorkerConstruct_global(i) ==
  /\ tpc[i] = "queued"
  /\ \A j \in 1..(i - 1) : tpc[j] # "queued"
  /\ Cardinality(Running) < max_workers
  /\ LET c == IF loads(file[i]).st = "ok"
              THEN Construct("Work", loads(file[i]).data)
              ELSE [st |-> "error", obj |-> None]
     IN  /\ work_' = [j \in Tasks |-> IF j = i \/ tpc[j] = "insert"
                                      THEN c.obj ELSE work_[j]]
         /\ tpc' = [tpc EXCEPT ![i] = IF c.st = "ok" THEN "insert" ELSE "failed"]
  /\ UNCHANGED <<cur, conn, committed, file>>
  /\ UNCHANGED <<pad_year, recordVars, batchVars>>

\* A thread of the pool starts the task of the next line: it takes a
\* connection and a cursor and builds work_ from the decoded line.
WorkerConstruct(i) ==
  /\ tpc[i] = "queued"
  /\ \A j \in 1..(i - 1) : tpc[j] # "queued"
  /\ Cardinality(Running) < max_workers
  /\ LET c == IF loads(file[i]).st = "ok"
              THEN Construct("Work", loads(file[i]).data)
              ELSE [st |-> "error", obj |-> None]
     IN  /\ work_' = [work_ EXCEPT ![i] = c.obj]
         /\ tpc' = [tpc EXCEPT ![i] = IF c.st = "ok" THEN "insert" ELSE "failed"]
  /\ UNCHANGED <<cur, conn, committed, file>>
  /\ UNCHANGED <<pad_year, recordVars, batchVars>>

\* A variant of the INSERT on a connection in autocommit mode: what the
\* server accepts is stored at once.
WorkerExecute_autocommit(i) ==
  /\ tpc[i] = "insert"
  /\ Len(cur[i]) < Len(Projection(work_[i]))
  /\ \E accepted \in BOOLEAN :
       IF accepted
       THEN /\ cur' = [cur EXCEPT ![i] =
                         Append(@, Projection(work_[i])[Len(@) + 1])]
            /\ committed' = [committed EXCEPT ![i] =
                               Append(@, Projection(work_[i])[Len(cur[i]) + 1])]
            /\ UNCHANGED <<tpc, conn>>
       ELSE /\ tpc' = [tpc EXCEPT ![i] = "failed"]
            /\ UNCHANGED <<cur, conn, committed>>
  /\ UNCHANGED <<work_, file>>
  /\ UNCHANGED <<pad_year, recordVars, batchVars>>

\* The next INSERT of the task: the root row, then the rows of the
\* subtables.  The server accepts the statement, or rejects it: execute
\* raises and the transaction is aborted.
WorkerExecute(i) ==
  /\ tpc[i] = "insert"
  /\ Len(cur[i]) < Len(Projection(work_[i]))
  /\ \E accepted \in BOOLEAN :
       IF accepted
       THEN /\ cur' = [cur EXCEPT ![i] =
                         Append(@, Projection(work_[i])[Len(@) + 1])]
            /\ conn' = [conn EXCEPT ![i] = "INTRANS"]
            /\ UNCHANGED tpc
       ELSE /\ conn' = [conn EXCEPT ![i] = "INERROR"]
            /\ tpc' = [tpc EXCEPT ![i] = "failed"]
            /\ UNCHANGED cur
  /\ UNCHANGED <<work_, committed, file>>
  /\ UNCHANGED <<pad_year, recordVars, batchVars>>

\* conn.commit() after the last INSERT.
WorkerCommit(i) ==
  /\ tpc[i] = "insert"
  /\ Len(cur[i]) = Len(Projection(work_[i]))
  /\ committed' = [committed EXCEPT ![i] = @ \o cur[i]]
  /\ conn' = [conn EXCEPT ![i] = "IDLE"]
  /\ tpc' = [tpc EXCEPT ![i] = "done"]
  /\ UNCHANGED <<work_, cur, file>>
  /\ UNCHANGED <<pad_year, recordVars, batchVars>>

\* The exception is printed, raised again and at last swallowed; the
\* connection block is left and sends COMMIT, which stores what an open
\* transaction executed and rolls an aborted one back.
WorkerFail(i) ==
  /\ tpc[i] = "failed"
  /\ committed' = [committed EXCEPT ![i] =
                     IF conn[i] = "INTRANS" THEN @ \o cur[i] ELSE @]
  /\ conn' = [conn EXCEPT ![i] = "IDLE"]
  /\ tpc' = [tpc EXCEPT ![i] = "done"]
  /\ UNCHANGED <<work_, cur, file>>
  /\ UNCHANGED <<pad_year, recordVars, batchVars>>

UploadNext ==
  \/ \E i \in Tasks : WorkerConstruct(i)
  \/ \E i \in Tasks : WorkerExecute(i)
  \/ \E i \in Tasks : WorkerCommit(i)
  \/ \E i \in Tasks : WorkerFail(i)

UploadSpec == UploadInit /\ [][UploadNext]_vars

(***************************************************************************)
(* Properties.                                                             *)
(***************************************************************************)
\* The present declared subentities of a root object.
Subentities(obj) ==
  LET subs == SqlSubtables(obj.cls)
      Of(v) == IF v.t = "none" THEN {}
               ELSE IF v.t = "list" THEN {v.l[j] : j \in 1..Len(v.l)}
               ELSE {v}
  IN  UNION {Of(obj.f[subs[i]]) : i \in 1..Len(subs)}

\* C1: after a successful normalization every present declared subentity of
\* the root carries the root's id under the kind's foreign-key name.
ForeignKeyReplicated ==
  result.st = "ok" =>
    \A sub \in Subentities(result.obj) :
      LET fk == ForeignKey(result.obj.cls)
      IN  fk \in DOMAIN sub.f /\ sub.f[fk] = result.obj.f["id"]

\* The raw work r with is_oa of its best_oa_location set to true.
WithIsOA(r) ==
  Put(r, "best_oa_location", D(Put(r["best_oa_location"].d, "is_oa", B(TRUE))))

\* Whether the raw work r states a best_oa_location with is_oa = false.
NotOA(r) ==
  /\ check("best_oa_location", r)
  /\ IsDict(r["best_oa_location"])
  /\ "is_oa" \in DOMAIN r["best_oa_location"].d
  /\ r["best_oa_location"].d["is_oa"] = B(FALSE)

\* Whether nothing but is_oa stands against the raw work r: the work without
\* its best_oa_location is valid, and so is the location with is_oa = true.
OtherwiseValid(r) ==
  /\ Construct("Work", [k \in DOMAIN r \ {"best_oa_location"} |-> r[k]]).st = "ok"
  /\ ValidateModel("WorkBestOALocation",
                   D(Put(WithIsOA(r)["best_oa_location"].d, "work_id", r["id"]))).st
       = "ok"

\* C2: a normalized Work has best_oa_location absent or with is_oa = true; a
\* work record whose best_oa_location.is_oa is false is never normalized, and
\* when it carries its id it fails validation, and the same record with
\* is_oa = true succeeds (nothing else being wrong).
BestOALocationIsOA ==
  kind = "works" /\ n >= 1 =>
    /\ first.st = "ok" =>
         \/ first.obj.f["best_oa_location"] = None
         \/ first.obj.f["best_oa_location"].f["is_oa"] = B(TRUE)
    /\ NotOA(raw0) =>
         /\ first.st # "ok"
         /\ "id" \in DOMAIN raw0 =>
              /\ first.st = "invalid"
              /\ OtherwiseValid(raw0) =>
                   Construct("Work", WithIsOA(raw0)).st = "ok"

BestOALocationIsOA_witness ==
  /\ kind = "works" /\ n = 1
  /\ NotOA(raw0)
  /\ first.st = "invalid"
  /\ Construct("Work", WithIsOA(raw0)).st = "ok"

\* The rows of one subtable, in the order they were inserted.
RowsOf(subtable) == SelectSeq(rows, LAMBDA r : r.sub = subtable)

\* The parameter a row gives for a column.
Param(r, col) == r.params[CHOOSE i \in 1..Len(r.cols) : r.cols[i] = col]

\* The number of institutions a raw authorship lists.
NInstitutions(a) ==
  IF check("institutions", a.d) THEN Len(a.d["institutions"].l) ELSE 0

AtLeastOne(k) == IF k < 1 THEN 1 ELSE k

\* The rows of the i-th raw authorship among the authorship rows, given what
\* a raw authorship without institutions has as its institution reference.
AuthorshipRowsAsStated(NoInstitution(_)) ==
  LET as == raw0["authorships"].l
      ar == RowsOf("authorships")
      Rows(a) == AtLeastOne(NInstitutions(a))
      Start(i) == SumSeq([j \in 1..(i - 1) |-> Rows(as[j])])
  IN  /\ Len(ar) = SumSeq([i \in 1..Len(as) |-> Rows(as[i])])
      /\ \A i \in 1..Len(as) :
           IF NInstitutions(as[i]) >= 1 THEN
             \A k \in 1..NInstitutions(as[i]) :
               /\ Param(ar[Start(i) + k], "institution_id")
                    = as[i].d["institutions"].l[k].d["id"]
               /\ \A c \in 1..Len(ar[Start(i) + k].cols) :
                    ar[Start(i) + k].cols[c] # "institution_id" =>
                      /\ ar[Start(i) + k].params[c] = ar[Start(i) + 1].params[c]
                      /\ ar[Start(i) + k].vals[c] = ar[Start(i) + 1].vals[c]
           ELSE Param(ar[Start(i) + 1], "institution_id") = NoInstitution(as[i])

\* Whether the rows are those of the work first submitted.
ProjectedFirst == kind = "works" /\ pc = "projected" /\ n = 1

\* The institution_id a raw authorship states itself.
OwnInstitution(a) ==
  IF check("institution_id", a.d) THEN a.d["institution_id"] ELSE None

NullInstitution(a) == None

\* C3: an authorship with N >= 1 institutions gives N authorship rows that
\* differ in the institution reference only, the k-th with the k-th
\* institution's id; an authorship with no institutions gives one row, whose
\* institution reference is the institution_id the raw authorship states
\* itself (null when it states none); the rows number the sum of max(1, N).
AuthorshipFanOut ==
  ProjectedFirst /\ check("authorships", raw0) =>
    AuthorshipRowsAsStated(OwnInstitution)

\* C3 as stated: the one row of an authorship with no institutions has a
\* null institution reference.
AuthorshipFanOut_null ==
  ProjectedFirst /\ check("authorships", raw0) =>
    AuthorshipRowsAsStated(NullInstitution)

AuthorshipFanOut_witness ==
  /\ ProjectedFirst /\ check("authorships", raw0)
  /\ Len(raw0["authorships"].l) = 2
  /\ NInstitutions(raw0["authorships"].l[1]) = 2
  /\ NInstitutions(raw0["authorships"].l[2]) = 0
  /\ Len(RowsOf("authorships")) = 3
  /\ Param(RowsOf("authorships")[1], "institution_id")
       # Param(RowsOf("authorships")[2], "institution_id")

\* The rows a list of bare ids under key gives in its relation, as stated.
RelationRows(key, col) ==
  LET xs == raw0[key].l
      rs == RowsOf(key)
  IN  /\ Len(rs) = Len(xs)
      /\ \A k \in 1..Len(xs) :
           /\ rs[k].cols = <<"work_id", col>>
           /\ rs[k].params = <<raw0["id"], xs[k]>>
           /\ rs[k].vals = <<"'" \o raw0["id"].s \o "'", "'" \o xs[k].s \o "'">>

\* C4: related_works (referenced_works) given as bare ids X1..Xn of a work W
\* project to exactly the rows (W, X1) .. (W, Xn), in list order.
RelatedWorksRows ==
  ProjectedFirst =>
    /\ check("related_works", raw0) => RelationRows("related_works", "related_work_id")
    /\ check("referenced_works", raw0) =>
         RelationRows("referenced_works", "referenced_work_id")

RelatedWorksRows_witness ==
  /\ ProjectedFirst
  /\ check("related_works", raw0)
  /\ raw0["related_works"] = L(<<S("W2"), S("W3")>>)
  /\ Len(RowsOf("related_works")) = 2
  /\ RowsOf("related_works")[1].params = <<S("W1"), S("W2")>>
  /\ RowsOf("related_works")[2].params = <<S("W1"), S("W3")>>

\* C5: hydrating from the rows projected from a normalized object gives an
\* object equal to it in all fields.
RoundTrip ==
  pc = "hydrated" => hyd.st = "ok" /\ hyd.obj = result.obj

\* C6: normalization leaves the raw mapping as it was, nested mappings and
\* lists included, so that a second submission of the same mapping succeeds
\* whenever the first did, with an equal object.
RawUnchanged ==
  n >= 1 =>
    /\ raw = raw0
    /\ n = 2 /\ first.st = "ok" =>
         result.st = "ok" /\ result.obj = first.obj

\* The list-valued fields a class declares.
ListFields(cls) ==
  LET fs == ClassOf(cls).fields
  IN  {fs[i].name : i \in {j \in 1..Len(fs) :
         fs[j].ty \in {"liststr", "listint", "listfloat", "listcc", "listmodel"}}}

\* C7: a list-valued field supplied as an empty list normalizes to absent, and
\* the object equals the one built from the record without the field.
EmptyListIsAbsent ==
  n = 1 /\ first.st = "ok" =>
    \A k \in DOMAIN raw0 \cap ListFields(PYDANTIC_MODELS[kind]) :
      raw0[k] = L(<<>>) =>
        /\ first.obj.f[k] = None
        /\ first.obj
             = Construct(PYDANTIC_MODELS[kind],
                         [j \in DOMAIN raw0 \ {k} |-> raw0[j]]).obj

\* C8: for a word sequence w, the index mapping each word to the zero-based
\* positions at which it occurs reconstructs to the words of w joined by
\* single spaces.
AbstractReconstructed ==
  kind = "works" /\ n >= 1 /\ first.st = "ok" =>
    \A w \in WordSeqs :
      "abstract_inverted_index" \in DOMAIN raw0
        /\ raw0["abstract_inverted_index"] = IndexOf(w) =>
          Work_abstract(first.obj) = S(JoinStr(w, " "))

AbstractReconstructed_witness ==
  /\ kind = "works" /\ n = 1 /\ first.st = "ok"
  /\ "abstract_inverted_index" \in DOMAIN raw0
  /\ raw0["abstract_inverted_index"] = IndexOf(<<"the", "cat", "the">>)
  /\ Work_abstract(first.obj) = S("the cat the")

\* Whether the raw work r has no inverted index, or an empty one.
NoIndex(r) ==
  \/ ~check("abstract_inverted_index", r)
  \/ r["abstract_inverted_index"] = D(EmptyDict)

\* C9: a Work whose abstract_inverted_index is absent or empty has an absent
\* abstract, not an empty string.
AbstractAbsent ==
  kind = "works" /\ n >= 1 /\ first.st = "ok" /\ NoIndex(raw0) =>
    Work_abstract(first.obj) = None /\ Work_abstract(first.obj) # S("")

AbstractAbsent_witness ==
  /\ kind = "works" /\ n = 1 /\ first.st = "ok"
  /\ "abstract_inverted_index" \in DOMAIN raw0
  /\ raw0["abstract_inverted_index"] = D(EmptyDict)
  /\ Work_abstract(first.obj) = None

\* The table object a row was projected from.
SourceOf(r) ==
  IF r.sub = "" THEN result.obj
  ELSE IF result.obj.f[r.sub].t = "list" THEN result.obj.f[r.sub].l[r.idx]
  ELSE result.obj.f[r.sub]

\* C10: a projected row has one value per declared column of its table, and
\* value i (as SQL literal and as query parameter) is the serialization of
\* the attribute named by column i; columns and values have the same length
\* and order.
RowsAligned ==
  pc \in {"projected", "hydrated"} =>
    \A x \in 1..Len(rows) :
      LET r == rows[x]
          a == SourceOf(r)
          order == ClassOf(a.cls).sql_order
      IN  /\ r.cols = order
          /\ Len(r.vals) = Len(order)
          /\ Len(r.params) = Len(order)
          /\ \A i \in 1..Len(order) :
               /\ r.cols[i] \in DOMAIN a.f
               /\ r.vals[i] = get_arg(a, order[i])
               /\ r.params[i] = to_sql_value(a.f[order[i]])

RowsAligned_witness ==
  /\ pc = "projected"
  /\ \E x \in 1..Len(rows) :
       /\ rows[x].sub = "authorships"
       /\ rows[x].cols[3] = "author_id"
       /\ rows[x].vals[3] = "'A1'"
       /\ rows[x].vals[1] = "'W1'"
       /\ rows[x].params[4] = S("I2")

\* C11: in every projected row an absent attribute gives the null marker
\* NULL (and a null query parameter), never an empty or quoted literal; a
\* present empty string gives the quoted empty literal, which is not the
\* null marker; and only an absent attribute or an empty list gives NULL.
AbsentIsNull ==
  pc \in {"projected", "hydrated"} =>
    \A x \in 1..Len(rows) :
      LET r == rows[x]
          a == SourceOf(r)
      IN  \A i \in 1..Len(r.cols) :
            LET v == a.f[r.cols[i]]
            IN  /\ v = None => r.vals[i] = "NULL" /\ r.params[i] = None
                /\ v = S("") => r.vals[i] = "''" /\ r.params[i] = S("")
                /\ r.vals[i] = "NULL" => v \in {None, L(<<>>)}
                /\ r.vals[i] # ""

AbsentIsNull_witness ==
  /\ pc = "projected"
  /\ \E x \in 1..Len(rows) :
       /\ rows[x].sub = "biblio"
       /\ SourceOf(rows[x]).f["volume"] = S("")
       /\ SourceOf(rows[x]).f["issue"] = None
       /\ rows[x].vals = <<"'W1'", "''", "NULL", "NULL", "NULL">>

\* C12: normalizing a raw mapping that lacks the id fails as a validation
\* failure, whatever else the mapping carries, and not with another error.
MissingIdIsSchemaViolation ==
  n >= 1 /\ "id" \notin DOMAIN raw0 => first.st = "invalid"

\* The cross-field invariants of a root object: every declared subentity
\* carries the root's id as its foreign key, a work's best_oa_location is
\* open access, and an authorship's author_id is its embedded author's id.
CrossFieldInvariants(obj) ==
  /\ \A sub \in Subentities(obj) :
       sub.f[ForeignKey(obj.cls)] = obj.f["id"]
  /\ obj.cls = "Work" =>
       /\ \/ obj.f["best_oa_location"] = None
          \/ obj.f["best_oa_location"].f["is_oa"] = B(TRUE)
       /\ obj.f["authorships"] # None =>
            \A j \in 1..Len(obj.f["authorships"].l) :
              LET a == obj.f["authorships"].l[j]
              IN  a.f["author"] # None => a.f["author"].f["id"] = a.f["author_id"]

\* Whether storage holds a best_oa_location row that is not open access.
StoredNotOA ==
  \E x \in 1..Len(rows) :
    rows[x].sub = "best_oa_location" /\ Param(rows[x], "is_oa") # B(TRUE)

\* C13: from_sql on whatever rows storage holds either fails, returning no
\* object, or returns an object that satisfies the cross-field invariants;
\* a Work whose best_oa_location row is not open access fails.
HydrationRechecks ==
  pc \in {"hydrated", "rehydrated"} =>
    /\ hyd.st # "ok" => hyd.obj = None
    /\ hyd.st = "ok" => CrossFieldInvariants(hyd.obj)
    /\ kind = "works" /\ StoredNotOA => hyd.st # "ok" /\ hyd.obj = None

HydrationRechecks_witness ==
  /\ pc = "rehydrated" /\ kind = "works"
  /\ result.obj.f["best_oa_location"] # None
  /\ StoredNotOA
  /\ hyd.st = "invalid" /\ hyd.obj = None

\* The tables a root class touches: its own and those of the subentities
\* it declares.
TablesOf(cls) ==
  {ClassOf(cls).sql_table_name}
    \cup {ClassOf(SubClass(cls, SqlSubtables(cls)[i])).sql_table_name :
            i \in 1..Len(SqlSubtables(cls))}

\* C15: the registry's table list of a kind holds the kind's root table and
\* the table of every subentity the kind declares, so every row projected
\* for the kind goes to a listed table.
RegistryListsEveryTable ==
  /\ \A t \in TablesOf(PYDANTIC_MODELS[kind]) :
       \E i \in 1..Len(SQL_TABLE_NAMES[kind]) : SQL_TABLE_NAMES[kind][i] = t
  /\ pc = "projected" =>
       \A x \in 1..Len(rows) :
         \E i \in 1..Len(SQL_TABLE_NAMES[kind]) :
           SQL_TABLE_NAMES[kind][i] = rows[x].table

\* Whether applying a rule to the mapping it gave for d changes nothing and
\* leaves a mapping that normalizes.
Idempotent(Rule(_), d) ==
  Rule(d).st = "ok" =>
    /\ Rule(Rule(d).data).st = "ok"
    /\ Rule(Rule(d).data).data = Rule(d).data
    /\ Construct("Work", Rule(Rule(d).data).data).st = "ok"

\* C19: for a work record that normalizes, each pre-coercion rule of the
\* Work pipeline (identifier replication, relation wrapping, fan-out
\* expansion) applied to a mapping it was already applied to leaves the
\* mapping unchanged and normalizable.
RulesIdempotent ==
  kind = "works" /\ n >= 1 /\ first.st = "ok" =>
    /\ Idempotent(Work_replicate_id_1, raw0)
    /\ Idempotent(Work_replicate_id_2, raw0)
    /\ Idempotent(Work_replicate_id_3, raw0)
    /\ Idempotent(Work_work_id_ref_related, raw0)
    /\ Idempotent(Work_flatten_authorships, raw0)

\* Whether row r holds the values of the table object a, column by column.
RowHolds(r, a) ==
  /\ r.table = ClassOf(a.cls).sql_table_name
  /\ \A c \in 1..Len(r.cols) : r.params[c] = to_sql_value(a.f[r.cols[c]])

\* The value a raw authorship gives for a key, null when it gives none.
RawValue(a, key) == IF key \in DOMAIN a.d THEN a.d[key] ELSE None

\* The authorship rows come in blocks, one per raw authorship in list order;
\* the rows of a block carry that authorship's affiliation string and author,
\* and follow the order of its institutions list.
AuthorshipBlocks ==
  LET as == raw0["authorships"].l
      ar == RowsOf("authorships")
      Rows(a) == AtLeastOne(NInstitutions(a))
      Start(i) == SumSeq([j \in 1..(i - 1) |-> Rows(as[j])])
  IN  /\ Len(ar) = SumSeq([i \in 1..Len(as) |-> Rows(as[i])])
      /\ \A i \in 1..Len(as) :
           \A k \in 1..Rows(as[i]) :
             LET r == ar[Start(i) + k]
             IN  /\ Param(r, "raw_affiliation_string")
                      = RawValue(as[i], "raw_affiliation_string")
                 /\ Param(r, "author_id")
                      = IF check("author", as[i].d)
                        THEN as[i].d["author"].d["id"]
                        ELSE RawValue(as[i], "author_id")
                 /\ NInstitutions(as[i]) >= 1 =>
                      Param(r, "institution_id")
                        = as[i].d["institutions"].l[k].d["id"]

\* C20: the projection of a normalized root object is one root row, then
\* for each declared subentity no row when it is absent, exactly one row
\* when it is a present one-to-one subentity, and one row per element in
\* list order when it is one-to-many; the authorship rows of a work follow
\* the order of the raw authorships and, within one authorship, the order of
\* its institutions.
RowsInOrder ==
  pc = "projected" =>
    LET obj == result.obj
        subs == SqlSubtables(obj.cls)
    IN  /\ Len(RowsOf("")) = 1
        /\ rows[1].sub = "" /\ RowHolds(rows[1], obj)
        /\ \A x \in 1..Len(rows) :
             rows[x].sub # "" =>
               \E i \in 1..Len(subs) : subs[i] = rows[x].sub
        /\ \A i \in 1..Len(subs) :
             LET v == obj.f[subs[i]]
                 rs == RowsOf(subs[i])
             IN  IF v = None THEN rs = <<>>
                 ELSE IF subs[i] \in MULTIVALUE(obj.cls)
                 THEN /\ v.t = "list" /\ Len(rs) = Len(v.l)
                      /\ \A j \in 1..Len(rs) : RowHolds(rs[j], v.l[j])
                 ELSE Len(rs) = 1 /\ RowHolds(rs[1], v)
        /\ ProjectedFirst /\ check("authorships", raw0) => AuthorshipBlocks

RowsInOrder_witness ==
  /\ ProjectedFirst /\ check("authorships", raw0)
  /\ Len(raw0["authorships"].l) = 2
  /\ NInstitutions(raw0["authorships"].l[1]) = 2
  /\ NInstitutions(raw0["authorships"].l[2]) = 0
  /\ Len(rows) = 4
  /\ Param(rows[2], "institution_id") = S("I2")
  /\ Param(rows[3], "institution_id") = S("I1")
  /\ Param(rows[4], "raw_affiliation_string") = S("Univ")
  /\ result.obj.f["biblio"] = None /\ RowsOf("biblio") = <<>>

\* What the call of as_pydantic hands to its caller.
Delivered == IF bpc = "returned" THEN pydantic_objs ELSE <<>>

\* The objects of the lines that normalize, in the order of the lines.
GoodObjects(k, ls) ==
  LET c == <<>> \o [i \in 1..Len(ls) |->
                     IF IsDict(ls[i]) THEN Construct(PYDANTIC_MODELS[k], ls[i].d)
                     ELSE [st |-> "error", obj |-> None]]
      good == SelectSeq(<<>> \o [i \in 1..Len(ls) |-> i], LAMBDA i : c[i].st = "ok")
  IN  [j \in 1..Len(good) |-> c[good[j]].obj]

\* C14: when the processing of a batch of lines of a known kind has ended,
\* every line that normalizes has been normalized and delivered, whatever
\* the other lines are: a line that fails does not abort the batch.
BadLineDoesNotAbort ==
  type_ \in Kinds /\ bpc \in {"returned", "raised"} =>
    Delivered = GoodObjects(type_, file)

\* C16: a call for a kind tag the registry does not have, or for the empty
\* tag, raises at once: no line is read, none is normalized, and nothing
\* is returned.
UnknownKindFailsFirst ==
  type_ \notin Kinds =>
    /\ bpc \in {"called", "raised"}
    /\ ~linesRead
    /\ pydantic_objs = <<>> /\ Delivered = <<>>

UnknownKindFailsFirst_witness ==
  /\ type_ = "funders" /\ bpc = "raised"
  /\ lines = None /\ Len(file) = MaxLines
  /\ ~linesRead /\ pydantic_objs = <<>>

\* The object and the rows of a line processed alone.
ProcessedAlone(line) ==
  LET c == IF loads(line).st = "ok" THEN Construct("Work", loads(line).data)
           ELSE [st |-> "error", obj |-> None]
  IN  [st |-> c.st, obj |-> c.obj,
       rows |-> IF c.st = "ok" THEN Projection(c.obj) ELSE <<>>]

AloneTable == {<<line, ProcessedAlone(line)>> : line \in UploadLines}

Alone(line) == (CHOOSE p \in AloneTable : p[1] = line)[2]

IsPrefix(a, b) == Len(a) <= Len(b) /\ \A x \in 1..Len(a) : a[x] = b[x]

\* C17: whatever the interleaving of the tasks, the object a task builds,
\* the rows it executes and the rows it commits are those of its own line
\* processed alone.
WorkersIndependent ==
  \A i \in DOMAIN tpc :
    /\ tpc[i] # "queued" => work_[i] = Alone(file[i]).obj
    /\ IsPrefix(cur[i], Alone(file[i]).rows)
    /\ IsPrefix(committed[i], Alone(file[i]).rows)
    /\ tpc[i] = "done" /\ Alone(file[i]).st = "ok"
         /\ Len(cur[i]) = Len(Alone(file[i]).rows) =>
           committed[i] = Alone(file[i]).rows

WorkersIndependent_witness ==
  /\ Len(tpc) = 2
  /\ file[1] # file[2]
  /\ tpc[1] = "insert" /\ tpc[2] = "insert"
  /\ Len(cur[1]) = 2 /\ Len(cur[2]) = 1
  /\ work_[1] # work_[2]
  /\ cur[1] = Alone(file[1]).rows

\* C18: once a task is over, storage holds the root row and all the
\* subentity rows of its record, or none of its rows.
AllOrNothing ==
  \A i \in DOMAIN tpc :
    tpc[i] = "done" =>
      \/ committed[i] = <<>>
      \/ work_[i] # None /\ committed[i] = Projection(work_[i])

AllOrNothing_witness ==
  /\ Len(tpc) = 2
  /\ tpc[1] = "done" /\ tpc[2] = "done"
  /\ work_[1] # None
  /\ Len(cur[1]) = 2 /\ Len(Projection(work_[1])) = 3
  /\ committed[1] = <<>>
  /\ Len(committed[2]) = 2


\* Compact JSON text of a scalar and of a nested object (its fields in
\* declaration order), as a JSON encoder writes them.
JsonScalar(v) ==
  CASE v.t = "none" -> "null"
    [] v.t = "str" -> "\"" \o v.s \o "\""
    [] v.t = "bool" -> IF v.b THEN "true" ELSE "false"
    [] v.t \in {"int", "float"} -> NumStr(v)
    [] OTHER -> "..."

JsonText(v) ==
  IF v.t = "dict" THEN DumpIndex(v)
  ELSE LET fs == ClassOf(v.cls).fields
       IN  "{" \o JoinStr([i \in 1..Len(fs) |->
                             "\"" \o fs[i].name \o "\":"
                               \o JsonScalar(v.f[fs[i].name])], ",") \o "}"

\* The literal the coercion table gives a present value of a kind it names;
\* a list of strings is outside this table.
TableLiteral(v) ==
  CASE v.t \in {"dict", "obj"} -> "'" \o Replace(JsonText(v), "'", "''") \o "'"
    [] v.t = "list" ->
         "'[" \o JoinStr([i \in 1..Len(v.l) |-> NumStr(v.l[i])], ", ") \o "]'"
    [] v.t = "bool" -> IF v.b THEN "TRUE" ELSE "FALSE"
    [] v.t = "str" -> "'" \o Replace(v.s, "'", "''") \o "'"
    [] v.t \in {"int", "float"} -> "'" \o NumStr(v) \o "'"

InTable(v) ==
  /\ v # None
  /\ v.t = "list" => Len(v.l) > 0 /\ v.l[1].t \in {"int", "float"}

\* C21: every present column value of a normalized object is serialized as
\* the coercion table says: a nested object or mapping as compact JSON text,
\* a list of numbers as its literal text, a boolean as TRUE or FALSE, every
\* other scalar as its text in single quotes with single quotes doubled.
CoercionTable ==
  pc = "projected" =>
    \A x \in 1..Len(rows) :
      LET r == rows[x]
          a == SourceOf(r)
      IN  \A i \in 1..Len(r.cols) :
            LET v == a.f[r.cols[i]]
            IN  InTable(v) => r.vals[i] = TableLiteral(v)

\* The part of C21 about nested values alone.
NestedIsJson ==
  pc = "projected" =>
    \A x \in 1..Len(rows) :
      LET r == rows[x]
          a == SourceOf(r)
      IN  \A i \in 1..Len(r.cols) :
            LET v == a.f[r.cols[i]]
            IN  v.t \in {"dict", "obj"} => r.vals[i] = TableLiteral(v)

\* The part of C21 about booleans, strings and lists of numbers.
ScalarsByTable ==
  pc = "projected" =>
    \A x \in 1..Len(rows) :
      LET r == rows[x]
          a == SourceOf(r)
      IN  \A i \in 1..Len(r.cols) :
            LET v == a.f[r.cols[i]]
            IN  InTable(v) /\ v.t \in {"bool", "str", "list"}
                  => r.vals[i] = TableLiteral(v)

\* A column value that is a list of strings with at least one element.
IsStringList(v) == IsList(v) /\ Len(v.l) > 0 /\ v.l[1].t = "str"

\* C22: the array literal of every list of strings in a projected row is
\* well formed, and decoding it gives back exactly the list, also when the
\* elements hold single quotes, double quotes or commas.
ArrayLiteralDecodes ==
  pc = "projected" =>
    \A x \in 1..Len(rows) :
      LET r == rows[x]
          a == SourceOf(r)
      IN  \A i \in 1..Len(r.cols) :
            LET v == a.f[r.cols[i]]
            IN  IsStringList(v) =>
                  /\ r.vals[i] = JoinStr(ArrayChunks(v.l), "")
                  /\ loads_array(SqlText(ArrayChunks(v.l))) = Ok(v)

\* The part of C22 about single quotes and commas: a list whose elements
\* hold no double quote is decoded to itself.
ArrayLiteralDecodes_plain ==
  pc = "projected" =>
    \A x \in 1..Len(rows) :
      LET r == rows[x]
          a == SourceOf(r)
      IN  \A i \in 1..Len(r.cols) :
            LET v == a.f[r.cols[i]]
            IN  /\ IsStringList(v)
                /\ \A j \in 1..Len(v.l) :
                     \A c \in 1..Len(Chars(v.l[j].s)) : Chars(v.l[j].s)[c] # "\""
                => loads_array(SqlText(ArrayChunks(v.l))) = Ok(v)

\* C23: for every root kind the raw mapping that holds only the id is
\* normalized successfully, and every other declared field of the object is
\* the absent marker (a list field too: absent, not an empty list).
IdOnlyNormalizes ==
  raw0 = IdOnly(kind) /\ n >= 1 =>
    /\ first.st = "ok"
    /\ \A name \in DOMAIN first.obj.f :
         name # "id" => first.obj.f[name] = None

\* The part of C23 for the kinds other than topics.
IdOnlyNormalizes_others ==
  raw0 = IdOnly(kind) /\ n >= 1 /\ kind # "topics" =>
    /\ first.st = "ok"
    /\ first.obj.f["id"] = S(IdOf(kind))
    /\ \A name \in DOMAIN first.obj.f :
         name # "id" => first.obj.f[name] = None

\* A raw authorship that carries an author_id and an embedded author with a
\* different id.
Mismatched(a) ==
  /\ IsDict(a)
  /\ check("author", a.d) /\ IsDict(a.d["author"])
  /\ "id" \in DOMAIN a.d["author"].d
  /\ check("author_id", a.d)
  /\ a.d["author"].d["id"] # a.d["author_id"]

HasMismatch(r) ==
  /\ check("authorships", r)
  /\ IsList(r["authorships"])
  /\ \E i \in 1..Len(r["authorships"].l) : Mismatched(r["authorships"].l[i])

\* C24: a work with an authorship whose author_id differs from the id of
\* its embedded author is rejected with a validation failure; the supplied
\* author_id is not rewritten to make the record pass.  Stated for the
\* works that carry their id.
MismatchRejected ==
  kind = "works" /\ n >= 1 /\ "id" \in DOMAIN raw0 /\ HasMismatch(raw0)
    => first.st = "invalid"

\* Whether every authorship of a work object that embeds an author carries
\* that author's id as author_id.
AuthorIdsMatch(obj) ==
  obj.f["authorships"].t = "list" =>
    \A i \in 1..Len(obj.f["authorships"].l) :
      LET a == obj.f["authorships"].l[i]
      IN  a.f["author"].t # "none" => a.f["author_id"] = a.f["author"].f["id"]

\* C25: in every successfully normalized Work each authorship that embeds an
\* author has author_id equal to that author's id, the authorships made by
\* fan-out expansion included.
AuthorIdMatchesAuthor ==
  kind = "works" =>
    /\ result.st = "ok" => AuthorIdsMatch(result.obj)
    /\ first.st = "ok" => AuthorIdsMatch(first.obj)
    /\ hyd.st = "ok" => AuthorIdsMatch(hyd.obj)

AuthorIdMatchesAuthor_witness ==
  /\ kind = "works"
  /\ pc = "normalized"
  /\ result.st = "ok"
  /\ check("authorships", raw0)
  /\ Len(raw0["authorships"].l) = 1
  /\ check("institutions", raw0["authorships"].l[1].d)
  /\ Len(raw0["authorships"].l[1].d["institutions"].l) = 2
  /\ Len(result.obj.f["authorships"].l) = 2
  /\ \A i \in 1..2 :
       LET a == result.obj.f["authorships"].l[i]
       IN  /\ a.f["author"].t = "obj"
           /\ a.f["author"].f["id"] = S("A1")
           /\ a.f["author_id"] = S("A1")

\* A raw repositories entry whose host_organization is missing, null or
\* another institution's id.
BadRepository(r, id) ==
  IsDict(r) /\ (~check("host_organization", r.d) \/ r.d["host_organization"] # id)

HasBadRepository(r) ==
  /\ check("repositories", r)
  /\ \E i \in 1..Len(r["repositories"].l) :
       BadRepository(r["repositories"].l[i], r["id"])

\* C26: an Institution is constructed only if every entry of its
\* repositories has host_organization equal to the institution's id; an
\* entry whose host_organization differs or is null makes normalization
\* fail as a validation failure; and a record that is accepted with a
\* well-hosted repository is also accepted without its repositories.
RepositoriesHosted ==
  kind = "institutions" /\ n >= 1 /\ "id" \in DOMAIN raw0 =>
    /\ HasBadRepository(raw0) => first.st = "invalid"
    /\ first.st = "ok" /\ first.obj.f["repositories"].t = "list" =>
         \A i \in 1..Len(first.obj.f["repositories"].l) :
           first.obj.f["repositories"].l[i].f["host_organization"]
             = first.obj.f["id"]
    /\ /\ ~check("repositories", raw0)
       /\ Construct("Institution",
                    Put(raw0, "repositories",
                        L(<<D([id |-> S("S1"),
                               host_organization |-> raw0["id"]])>>))).st = "ok"
       => first.st = "ok" /\ first.obj.f["repositories"] = None

RepositoriesHosted_witness ==
  /\ kind = "institutions"
  /\ pc = "normalized"
  /\ n = 1
  /\ first.st = "invalid"
  /\ "id" \in DOMAIN raw0
  /\ raw0["id"] = S("I1")
  /\ check("repositories", raw0)
  /\ Len(raw0["repositories"].l) = 2
  /\ raw0["repositories"].l[1] = D([id |-> S("S1"), host_organization |-> S("I1")])
  /\ raw0["repositories"].l[2] = D([id |-> S("S3"), host_organization |-> None])

\* The value a raw mapping supplies under a key, None when it has none.
Supplied(r, key) == IF key \in DOMAIN r THEN r[key] ELSE None

\* C27: in a successfully normalized Topic, for each of domain, field and
\* subfield present as a nested object the root's <name>_id and
\* <name>_display_name are the nested object's id and display_name, whatever
\* scalar was supplied for them; for each that is absent the root keeps the
\* supplied scalars.
TopicFlattened ==
  kind = "topics" /\ first.st = "ok" =>
    \A name \in {"domain", "field", "subfield"} :
      LET o == first.obj
      IN  IF o.f[name].t # "none"
          THEN /\ o.f[name \o "_id"] = o.f[name].f["id"]
               /\ o.f[name \o "_display_name"] = o.f[name].f["display_name"]
          ELSE /\ o.f[name \o "_id"] = Supplied(raw0, name \o "_id")
               /\ o.f[name \o "_display_name"]
                    = Supplied(raw0, name \o "_display_name")

TopicFlattened_witness ==
  /\ kind = "topics"
  /\ pc = "normalized"
  /\ first.st = "ok"
  /\ Supplied(raw0, "domain_id") = S("D9")
  /\ Supplied(raw0, "subfield_id") = S("SF9")
  /\ first.obj.f["domain"].t = "obj"
  /\ first.obj.f["domain_id"] = S("D1")
  /\ first.obj.f["domain_display_name"] = S("Dom")
  /\ first.obj.f["subfield"] = None
  /\ first.obj.f["subfield_id"] = S("SF9")
  /\ first.obj.f["subfield_display_name"] = S("Old")

\* The column of the root row that holds the keywords.
KeywordsColumn == CHOOSE c \in 1..Len(Topic.sql_order) : Topic.sql_order[c] = "keywords"

\* The topic was read back from a row that holds its keywords as the text
\* of their literal.
ReadFromText ==
  /\ kind = "topics"
  /\ pc = "rehydrated"
  /\ IsList(result.obj.f["keywords"])
  /\ rows[1].params[KeywordsColumn] = AsStored(result.obj.f["keywords"])
  /\ \A c \in 1..Len(rows[1].cols) :
       c # KeywordsColumn => rows[1].params[c] = to_sql_values(result.obj)[c]

\* C28: keywords that arrive as an encoded string are decoded into the list
\* the string encodes, keywords that arrive as a list are kept unchanged,
\* and hydrating a topic from the serialized form of its keywords restores
\* the same list.
KeywordsDecoded ==
  /\ kind = "topics" /\ first.st = "ok" /\ "keywords" \in DOMAIN raw0 =>
       /\ raw0["keywords"] = S("[\"k1\",\"k2\"]")
            => first.obj.f["keywords"] = L(<<S("k1"), S("k2")>>)
       /\ raw0["keywords"] = S("[]") => first.obj.f["keywords"] = L(<<>>)
       /\ IsList(raw0["keywords"]) => first.obj.f["keywords"] = raw0["keywords"]
  /\ ReadFromText =>
       hyd.st = "ok" /\ hyd.obj.f["keywords"] = result.obj.f["keywords"]

\* The part of C28 that holds: the decoding of arriving keywords, and the
\* round trip of a list that is not empty and has no double quote in its
\* elements.
KeywordsDecoded_plain ==
  /\ kind = "topics" /\ first.st = "ok" /\ "keywords" \in DOMAIN raw0 =>
       /\ raw0["keywords"] = S("[\"k1\",\"k2\"]")
            => first.obj.f["keywords"] = L(<<S("k1"), S("k2")>>)
       /\ raw0["keywords"] = S("[]") => first.obj.f["keywords"] = L(<<>>)
       /\ IsList(raw0["keywords"]) => first.obj.f["keywords"] = raw0["keywords"]
  /\ /\ ReadFromText
     /\ result.obj.f["keywords"] \in
          {L(<<S("k1")>>), L(<<S("k1"), S("k2")>>), L(<<S("it's"), S("a, b")>>)}
     => hyd.st = "ok" /\ hyd.obj.f["keywords"] = result.obj.f["keywords"]

\* A topic whose keywords hold a single quote and a comma was read back from
\* the text of their literal.
KeywordsDecoded_reached ==
  /\ ReadFromText
  /\ result.obj.f["keywords"] = L(<<S("it's"), S("a, b")>>)
  /\ rows[1].params[KeywordsColumn] = S("[\"it's\",\"a, b\"]")
  /\ hyd.st = "ok"

\* The kinds whose updated_date is declared in the zone-naive family.
NaiveFamily ==
  {"authors", "institutions", "sources", "publishers", "topics", "concepts"}

\* The timestamp a text denotes, at whole seconds and without offset.
WholeSeconds(s) ==
  CASE s \in {"2020-01-02T03:04:05.123456", "2020-01-02T03:04:05Z",
              "2020-01-02T03:04:05.123456+05:00"} -> "2020-01-02T03:04:05"
    [] s = "0999-01-02T03:04:05" -> "0999-01-02T03:04:05"

\* raw0 supplies an updated_date and is accepted without it.
DatedRecord ==
  /\ kind \in NaiveFamily
  /\ n >= 1
  /\ "updated_date" \in DOMAIN raw0
  /\ raw0["updated_date"] \in UpdatedDates
  /\ Construct(PYDANTIC_MODELS[kind],
               [k \in DOMAIN raw0 \ {"updated_date"} |-> raw0[k]]).st = "ok"

\* C29: the updated_date of an Author, Institution, Source, Publisher, Topic
\* or Concept, for any zoned or naive input timestamp, is stored as the
\* timestamp YYYY-MM-DDTHH:MM:SS at whole seconds without a time-zone
\* component, whatever else the record holds.
UpdatedDateNaive ==
  DatedRecord =>
    /\ first.st = "ok"
    /\ first.obj.f["updated_date"] = S(WholeSeconds(raw0["updated_date"].s))

\* The part of C29 for the timestamps of the years from 1000 on.
UpdatedDateNaive_modern ==
  DatedRecord /\ raw0["updated_date"] # S("0999-01-02T03:04:05") =>
    /\ first.st = "ok"
    /\ first.obj.f["updated_date"] = S(WholeSeconds(raw0["updated_date"].s))

\* A zoned timestamp with a fraction was stored, in each kind of the family.
UpdatedDateNaive_reached ==
  /\ DatedRecord
  /\ raw0["updated_date"] = S("2020-01-02T03:04:05.123456+05:00")
  /\ first.obj.f["updated_date"] = S("2020-01-02T03:04:05")

\* Every stored subentity row belongs to the root row: the queries by
\* work_id and the caller's mapping see the same rows.
RowsOfRecord ==
  \A x \in 2..Len(rows) :
    Fetched(rows, rows[x].sub, rows[1].params[1]) =
      SelectSeq(rows, LAMBDA r : r.sub = rows[x].sub)

\* C30: for the same stored rows, hydrating a Work from the subtables the
\* caller queried beforehand builds the object that hydrating it through a
\* connection builds, also when a one-to-many subentity has no rows and
\* when a one-to-one subentity has no row.
PathsAgree ==
  kind = "works" /\ pc \in {"hydrated", "rehydrated"} /\ RowsOfRecord =>
    hyd = from_sql_conn(rows[1].params, rows)

\* The part of C30 that holds: the two paths agree when the caller's
\* mapping leaves out the subtables that have no row.
PathsAgree_omitted ==
  kind = "works" /\ pc \in {"projected", "rehydrated", "fetched"}
    /\ RowsOfRecord =>
    from_sql("Work", rows[1].params, Subtables("Work", rows, FALSE, FALSE))
      = from_sql_conn(rows[1].params, rows)

\* A work with authorships and without locations was hydrated through a
\* connection.
PathsAgree_reached ==
  /\ kind = "works"
  /\ pc = "fetched"
  /\ RowsOfRecord
  /\ hyd.st = "ok"
  /\ hyd.obj.f["authorships"].t = "list"
  /\ hyd.obj.f["locations"] = None
  /\ hyd.obj.f["biblio"] = None

=============================================================================
